---- MODULE Spec2Model ----
(***************************************************************************)
(* Card / strategy store and strategy compiler of vibe-trade-mcp.          *)
(*                                                                         *)
(* State: the two Firestore collections (cards, strategies), the wall      *)
(* clock read by now_iso(), the id generator of the store, and the         *)
(* outcome of the last tool call.  One action per MCP tool.                *)
(*                                                                         *)
(* JSON values (slots, overrides) are tagged one-field records:            *)
(*   [obj |-> f]   a dict, f a function from its keys to JSON values       *)
(*   [str |-> s]   a string       [num |-> n]   a number                   *)
(*   [arr |-> q]   a list         [null |-> TRUE]  None                    *)
(* Timestamps: now_iso() renders the instant read from the clock as an     *)
(* ISO-8601 string; the rendering is injective and the code only stores    *)
(* and compares these strings for equality, so the model keeps the instant *)
(* (clock reading) itself.                                                 *)
(***************************************************************************)
EXTENDS Integers, Sequences, FiniteSets, TLC

VARIABLES cards, strategies, now, nextCardId, nextStrategyId, last,
          mBase, mOverride, mResult, mBaseAfter, mPc,
          calls

storeVars == <<cards, strategies, now, nextCardId, nextStrategyId, last>>
mergeVars == <<mBase, mOverride, mResult, mBaseAfter, mPc>>
vars == <<cards, strategies, now, nextCardId, nextStrategyId, last,
          mBase, mOverride, mResult, mBaseAfter, mPc, calls>>

(***************************************************************************)
(* Bounds of the model.                                                    *)
(***************************************************************************)
MaxCards == 2
MaxStrategies == 1
MaxClock == 1

(***************************************************************************)
(* JSON values.                                                            *)
(***************************************************************************)
JObj(f) == [obj |-> f]
JStr(s) == [str |-> s]
JNum(n) == [num |-> n]
JArr(q) == [arr |-> q]
JNull == [null |-> TRUE]
EmptyDict == [k \in {} |-> JNull]
JEmpty == JObj(EmptyDict)

\* isinstance(v, dict)
IsDict(v) == DOMAIN v = {"obj"}
IsStr(v) == DOMAIN v = {"str"}
IsNum(v) == DOMAIN v = {"num"}
IsNone(v) == DOMAIN v = {"null"}
Keys(v) == DOMAIN v.obj
\* `k in v` for a dict v
HasKey(v, k) == k \in DOMAIN v.obj
\* v[k]
Get(v, k) == v.obj[k]
\* v.get(k): None when the key is absent
GetOrNone(v, k) == IF HasKey(v, k) THEN v.obj[k] ELSE JNull
\* Python truthiness of a JSON value (`if x:` / `not x`)
Truthy(v) ==
    IF IsNone(v) THEN FALSE
    ELSE IF IsStr(v) THEN v.str # ""
    ELSE IF IsNum(v) THEN v.num # 0
    ELSE IF IsDict(v) THEN DOMAIN v.obj # {}
    ELSE Len(v.arr) > 0
\* a dict literal with one key / two keys
D1(k, x) == JObj([j \in {k} |-> x])
D2(k1, x1, k2, x2) == JObj([j \in {k1, k2} |-> IF j = k1 THEN x1 ELSE x2])

(***************************************************************************)
(* Store helpers: a collection is a function from the ids of the existing  *)
(* documents to the documents.                                             *)
(***************************************************************************)
EmptyStore == [k \in {} |-> 0]
Put(f, k, v) == [j \in DOMAIN f \cup {k} |-> IF j = k THEN v ELSE f[j]]
Remove(f, k) == [j \in DOMAIN f \ {k} |-> f[j]]

(***************************************************************************)
(* Archetype schema catalog (ArchetypeSchemaRepository).  The catalog is   *)
(* read-only at runtime.  Three archetypes are modelled; any other type id *)
(* has no schema.  min_history_bars = 0 stands for an unset constraint     *)
(* (None), which the code treats like 0 (`or 100`).                        *)
(***************************************************************************)
SchemaTypes == {"entry.trend_pullback", "entry.intermarket_trigger", "exit.rule_trigger"}

Schemas ==
    [t \in SchemaTypes |->
        [type_id |-> t,
         etag |-> <<"W/seed", t>>,
         min_history_bars |-> IF t = "entry.trend_pullback" THEN 200
                              ELSE IF t = "entry.intermarket_trigger" THEN 300
                              ELSE 0]]

\* schema_repo.get_by_type_id(type) is not None
HasSchema(t) == t \in DOMAIN Schemas
\* schema_repo.get_by_type_id(type)
get_by_type_id(t) == Schemas[t]

\* Upper bound of event.dip_band.mult in the entry.trend_pullback schema.
MultMax == 5

(***************************************************************************)
(* Slot validator.  jsonschema.validate raises on the first (best) error,  *)
(* so the returned list holds at most one message.  The JSON Schemas of    *)
(* the catalog are modelled by the constraints the tests exercise:         *)
(*  - no additional top-level properties beyond context, event, action     *)
(*  - context: required object {symbol: string, tf: string}, both required *)
(*  - event: object; dip_band.mult <= MultMax (trend_pullback);            *)
(*    lead_follow.follower_symbol: string, required (intermarket_trigger)  *)
(* ViolationPath is the dotted path of the first violation, "" if none.    *)
(***************************************************************************)
ContextViolation(slots) ==
    IF ~HasKey(slots, "context") THEN "root"
    ELSE LET c == Get(slots, "context") IN
         IF ~IsDict(c) THEN "context"
         ELSE IF Keys(c) \ {"symbol", "tf"} # {} THEN "context"
         ELSE IF ~HasKey(c, "symbol") \/ ~HasKey(c, "tf") THEN "context"
         ELSE IF ~IsStr(Get(c, "symbol")) THEN "context.symbol"
         ELSE IF ~IsStr(Get(c, "tf")) THEN "context.tf"
         ELSE ""

EventViolation(t, slots) ==
    IF ~HasKey(slots, "event")
    THEN (IF t = "entry.intermarket_trigger" THEN "root" ELSE "")
    ELSE LET e == Get(slots, "event") IN
         IF ~IsDict(e) THEN "event"
         ELSE IF t = "entry.intermarket_trigger" /\ ~HasKey(e, "lead_follow") THEN "event"
         ELSE IF t # "entry.intermarket_trigger" /\ HasKey(e, "lead_follow") THEN "event"
         ELSE IF t # "entry.trend_pullback" /\ HasKey(e, "dip_band") THEN "event"
         ELSE IF HasKey(e, "lead_follow")
                 /\ (~IsDict(Get(e, "lead_follow"))
                     \/ ~HasKey(Get(e, "lead_follow"), "follower_symbol"))
              THEN "event.lead_follow"
         ELSE IF HasKey(e, "lead_follow")
                 /\ ~IsStr(Get(Get(e, "lead_follow"), "follower_symbol"))
              THEN "event.lead_follow.follower_symbol"
         ELSE IF HasKey(e, "dip_band")
                 /\ (~IsDict(Get(e, "dip_band")) \/ ~HasKey(Get(e, "dip_band"), "mult"))
              THEN "event.dip_band"
         ELSE IF HasKey(e, "dip_band")
                 /\ (~IsNum(Get(Get(e, "dip_band"), "mult"))
                     \/ Get(Get(e, "dip_band"), "mult").num > MultMax)
              THEN "event.dip_band.mult"
         ELSE ""

ViolationPath(t, slots) ==
    IF Keys(slots) \ {"context", "event", "action"} # {} THEN "root"
    ELSE IF ContextViolation(slots) # "" THEN ContextViolation(slots)
    ELSE EventViolation(t, slots)

\* The violations present in a slot tree, by the part of the schema broken:
\* the properties allowed at the root, the context, the event.
Violations(t, slots) ==
    SelectSeq(<< IF Keys(slots) \ {"context", "event", "action"} # {} THEN "root" ELSE "",
                 ContextViolation(slots),
                 EventViolation(t, slots) >>,
              LAMBDA path : path # "")

\* A validator that collects every violation (iter_errors) instead of
\* stopping at the first.
ValidateSlotsEvery(t, slots) ==
    [i \in 1..Len(Violations(t, slots)) |->
        [error |-> "Validation error", path |-> Violations(t, slots)[i]]]

\* _validate_slots_against_schema(slots, schema.json_schema, schema_repo)
ValidateSlots(t, slots) ==
    IF ViolationPath(t, slots) = "" THEN <<>>
    ELSE << [error |-> "Validation error", path |-> ViolationPath(t, slots)] >>

(***************************************************************************)
(* deep_merge(base, override) of compile_strategy / validate_strategy.     *)
(*                                                                         *)
(* Python dicts are objects: `base.copy()` is a shallow copy that shares   *)
(* the nested dicts with base, and `result[key] = ...` writes into one     *)
(* object.  The merge is therefore run on a heap: a sequence of dict       *)
(* objects, a dict object being a function from keys to values, a value    *)
(* being a JSON scalar / list or a reference [ref |-> address] to a dict   *)
(* object.                                                                 *)
(***************************************************************************)
Ref(a) == [ref |-> a]
IsRef(v) == DOMAIN v = {"ref"}

\* Build JSON value v in the heap; val is the value that denotes it.
RECURSIVE HeapStore(_, _)
RECURSIVE HeapStoreKeys(_, _, _, _)
RECURSIVE HeapStoreNext(_, _, _, _, _)
HeapStoreKeys(heap, v, todo, dict) ==
    IF todo = {} THEN [heap |-> heap, dict |-> dict]
    ELSE HeapStoreNext(HeapStore(heap, Get(v, CHOOSE k \in todo : TRUE)),
                       v, todo, dict, CHOOSE k \in todo : TRUE)

HeapStoreNext(s, v, todo, dict, key) ==
    HeapStoreKeys(s.heap, v, todo \ {key}, Put(dict, key, s.val))

HeapAlloc(r) == [heap |-> Append(r.heap, r.dict), val |-> Ref(Len(r.heap) + 1)]

HeapStore(heap, v) ==
    IF ~IsDict(v) THEN [heap |-> heap, val |-> v]
    ELSE HeapAlloc(HeapStoreKeys(heap, v, Keys(v), EmptyDict))

\* The JSON value that heap value val denotes.
RECURSIVE HeapLoad(_, _)
HeapLoad(heap, val) ==
    IF IsRef(val)
    THEN JObj([k \in DOMAIN heap[val.ref] |-> HeapLoad(heap, heap[val.ref][k])])
    ELSE val

\* A dict copied without copying: the same object under a second name.
DictAlias(heap, base) == [heap |-> heap, ref |-> base]

\* result = base.copy()
DictCopy(heap, base) == [heap |-> Append(heap, heap[base]), ref |-> Len(heap) + 1]

\* deep_merge on dict objects base and override; returns the heap after the
\* call and the address of the returned dict.  HeapMergeKeys is the
\* `for key, value in override.items()` loop over the keys still to do.
RECURSIVE HeapMerge(_, _, _)
RECURSIVE HeapMergeKeys(_, _, _, _)
\* result[key] = x
SetItem(heap, result, key, x) == [heap EXCEPT ![result] = Put(@, key, x)]

\* result[key] = <the dict returned by the nested deep_merge>
SetMerged(sub, result, key) == SetItem(sub.heap, result, key, Ref(sub.ref))

HeapMergeKeys(heap, result, override, todo) ==
    IF todo = {} THEN [heap |-> heap, ref |-> result]
    ELSE LET key == CHOOSE k \in todo : TRUE
             value == heap[override][key]
         IN  IF key \in DOMAIN heap[result] /\ IsRef(heap[result][key]) /\ IsRef(value)
             THEN HeapMergeKeys(SetMerged(HeapMerge(heap, heap[result][key].ref, value.ref),
                                          result, key),
                                result, override, todo \ {key})
             ELSE HeapMergeKeys(SetItem(heap, result, key, value),
                                result, override, todo \ {key})

MergeInto(c, override) == HeapMergeKeys(c.heap, c.ref, override, DOMAIN c.heap[override])

HeapMerge(heap, base, override) == MergeInto(DictCopy(heap, base), override)

\* One call deep_merge(base, override) on two dicts that share no object:
\* the returned dict, and the dict `base` as the caller sees it afterwards.
MergeReturned(b, m) ==
    [result |-> HeapLoad(m.heap, Ref(m.ref)), base_after |-> HeapLoad(m.heap, b.val)]

MergeStored(b, o) == MergeReturned(b, HeapMerge(o.heap, b.val.ref, o.val.ref))

MergeOnto(b, override) == MergeStored(b, HeapStore(b.heap, override))

MergeCall(base, override) == MergeOnto(HeapStore(<<>>, base), override)

deep_merge(base, override) == MergeCall(base, override).result

\* effective_slots = card.slots.copy(); if attachment.overrides: deep_merge
EffectiveSlots(slots, overrides) ==
    IF Truthy(overrides) THEN deep_merge(slots, overrides) ELSE slots

(***************************************************************************)
(* Sub-spec extractors.                                                    *)
(***************************************************************************)
ConditionOf(event, key) ==
    IF HasKey(event, key)
       /\ IsDict(Get(event, key))
       /\ (HasKey(Get(event, key), "type") \/ HasKey(Get(event, key), "metric"))
    THEN (IF HasKey(Get(event, key), "type") THEN Get(event, key)
          ELSE D2("type", JStr("regime"), "regime", Get(event, key)))
    ELSE JNull

\* event.regime is looked at before event.condition.
ExtractRegimeFirst(effective_slots) ==
    IF ~HasKey(effective_slots, "event") THEN JNull
    ELSE LET event == Get(effective_slots, "event") IN
         IF ~IsNone(ConditionOf(event, "regime")) THEN ConditionOf(event, "regime")
         ELSE ConditionOf(event, "condition")

_extract_and_compile_condition(effective_slots) ==
    IF ~HasKey(effective_slots, "event") THEN JNull
    ELSE LET event == Get(effective_slots, "event") IN
         IF ~IsNone(ConditionOf(event, "condition")) THEN ConditionOf(event, "condition")
         ELSE ConditionOf(event, "regime")

_extract_execution_spec(effective_slots) ==
    IF HasKey(effective_slots, "action") /\ HasKey(Get(effective_slots, "action"), "execution")
    THEN Get(Get(effective_slots, "action"), "execution")
    ELSE JNull

_extract_sizing_spec(effective_slots) ==
    IF HasKey(effective_slots, "action") /\ HasKey(Get(effective_slots, "action"), "sizing")
    THEN Get(Get(effective_slots, "action"), "sizing")
    ELSE JNull

(***************************************************************************)
(* Compiler: issues, compiled cards, data requirements.                    *)
(***************************************************************************)
\* Default of min_bars when the schema sets no min_history_bars.
DefaultMinBars == 100

\* Attachment.card_revision_id = None
NoRevision == -1

\* Issue.path: "attachments[<card_id>]<suffix>", "attachments" or "universe";
\* card = 0 when the path names no card.
AttPath(card_id, suffix) == [root |-> "attachments", card |-> card_id, suffix |-> suffix]
PlainPath(root) == [root |-> root, card |-> 0, suffix |-> ""]

Issue(severity, code, message, path) ==
    [severity |-> severity, code |-> code, message |-> message, path |-> path]

EmptyRun == [issues |-> <<>>, compiled_cards |-> <<>>, data_requirements_map |-> <<>>]

\* The issue is lost instead of being accumulated.
AddIssueDropped(run, issue) == run

\* issues.append(Issue(...))
AddIssue(run, issue) == [run EXCEPT !.issues = Append(@, issue)]

\* data_requirements_map[key] = min_bars, whatever the map holds.
MergeRequirementLastWins(map, symbol, tf, min_bars) ==
    IF \E i \in 1..Len(map) : map[i].symbol = symbol /\ map[i].tf = tf
    THEN [i \in 1..Len(map) |->
            IF map[i].symbol = symbol /\ map[i].tf = tf
            THEN [map[i] EXCEPT !.min_bars = min_bars]
            ELSE map[i]]
    ELSE Append(map, [symbol |-> symbol, tf |-> tf, min_bars |-> min_bars])

\* if key not in data_requirements_map or min_bars > data_requirements_map[key]:
\*     data_requirements_map[key] = min_bars
\* The dict is kept as the sequence of its items in insertion order.
MergeRequirement(map, symbol, tf, min_bars) ==
    IF \E i \in 1..Len(map) : map[i].symbol = symbol /\ map[i].tf = tf
    THEN [i \in 1..Len(map) |->
            IF map[i].symbol = symbol /\ map[i].tf = tf /\ min_bars > map[i].min_bars
            THEN [map[i] EXCEPT !.min_bars = min_bars]
            ELSE map[i]]
    ELSE Append(map, [symbol |-> symbol, tf |-> tf, min_bars |-> min_bars])

\* min_bars = schema.constraints.min_history_bars or 100
MinBarsOf(schema) ==
    IF schema.min_history_bars # 0 THEN schema.min_history_bars ELSE DefaultMinBars

\* The part of the loop body after the card is resolved; it is the same text
\* in compile_strategy and validate_strategy: merge, schema lookup,
\* re-validation, context extraction, data requirement, sub-specs, append.
CompileEffective(run, att, cardDoc, card_revision_id, effective_slots, validation_errors) ==
    LET context == IF HasKey(effective_slots, "context")
                   THEN Get(effective_slots, "context") ELSE JEmpty
        symbol == IF HasKey(effective_slots, "context")
                  THEN GetOrNone(context, "symbol") ELSE JNull
        tf == IF HasKey(effective_slots, "context")
              THEN GetOrNone(context, "tf") ELSE JNull
    IN  IF ~HasSchema(cardDoc.type)
        THEN AddIssue(run, Issue("error", "SCHEMA_NOT_FOUND", "Schema not found",
                                 AttPath(att.card_id, ".type")))
        ELSE IF Len(validation_errors) > 0
        THEN [run EXCEPT !.issues = @ \o
                [i \in 1..Len(validation_errors) |->
                    Issue("error", "SLOT_VALIDATION_ERROR", validation_errors[i],
                          AttPath(att.card_id, ".effective_slots"))]]
        ELSE IF ~Truthy(symbol) \/ ~Truthy(tf)
        THEN AddIssue(run, Issue("error", "MISSING_CONTEXT", "missing symbol or tf in context",
                                 AttPath(att.card_id, ".effective_slots.context")))
        ELSE [run EXCEPT
                !.data_requirements_map =
                    MergeRequirement(@, symbol, tf, MinBarsOf(get_by_type_id(cardDoc.type))),
                !.compiled_cards = Append(@,
                    [role |-> att.role,
                     card_id |-> att.card_id,
                     card_revision_id |-> card_revision_id,
                     type |-> cardDoc.type,
                     effective_slots |-> effective_slots,
                     compiled_condition |-> _extract_and_compile_condition(effective_slots),
                     execution_spec |-> _extract_execution_spec(effective_slots),
                     sizing_spec |-> _extract_sizing_spec(effective_slots)])]

\* The effective slots are compiled without being validated again.
CompileMergedUnchecked(run, att, cardDoc, card_revision_id, effective_slots) ==
    CompileEffective(run, att, cardDoc, card_revision_id, effective_slots, <<>>)

\* validation_errors = _validate_slots_against_schema(effective_slots, ...)
CompileMerged(run, att, cardDoc, card_revision_id, effective_slots) ==
    CompileEffective(run, att, cardDoc, card_revision_id, effective_slots,
                     ValidateSlots(cardDoc.type, effective_slots))

CompileResolved(run, att, cardDoc, card_revision_id) ==
    CompileMerged(run, att, cardDoc, card_revision_id,
                  EffectiveSlots(cardDoc.slots, att.overrides))

\* A missing card reported with the severity of a warning.
CardNotFoundWarning(card_id, message) ==
    Issue("warning", "CARD_NOT_FOUND", message, AttPath(card_id, ""))

\* The issue appended when card_repo.get_by_id(attachment.card_id) is None.
CardNotFoundIssue(card_id, message) ==
    Issue("error", "CARD_NOT_FOUND", message, AttPath(card_id, ""))

\* No attachment is skipped.
SkippedNever(att) == FALSE

\* if not attachment.enabled: continue
Skipped(att) == ~att.enabled

\* One iteration of the attachment loop of compile_strategy, over the card
\* collection `cs`.  A pinned attachment is resolved like a following one,
\* by the card's id alone; the compiled card carries the attachment's
\* card_revision_id.
CompileAttachment(cs, run, att) ==
    IF Skipped(att) THEN run
    ELSE IF att.follow_latest
    THEN IF att.card_id \notin DOMAIN cs
         THEN AddIssue(run, CardNotFoundIssue(att.card_id,
                                              "Card not found (follow_latest=true)"))
         ELSE CompileResolved(run, att, cs[att.card_id], cs[att.card_id].updated_at)
    ELSE IF att.card_id \notin DOMAIN cs
         THEN AddIssue(run, CardNotFoundIssue(att.card_id, "Card not found"))
         ELSE CompileResolved(run, att, cs[att.card_id], att.card_revision_id)

\* One iteration of the attachment loop of validate_strategy.
ValidateAttachment(cs, run, att) ==
    IF att.follow_latest
    THEN IF att.card_id \notin DOMAIN cs
         THEN AddIssue(run, CardNotFoundIssue(att.card_id, "Attached card not found."))
         ELSE CompileResolved(run, att, cs[att.card_id], NoRevision)
    ELSE IF att.card_id \in DOMAIN cs /\ cs[att.card_id].updated_at = att.card_revision_id
         THEN CompileResolved(run, att, cs[att.card_id], att.card_revision_id)
         ELSE AddIssue(run, Issue("error", "CARD_REVISION_NOT_FOUND",
                                  "Pinned card revision not found",
                                  AttPath(att.card_id, "")))

\* The attachments are processed from the last stored to the first.
RECURSIVE CompileLoopBackwards(_, _, _, _)
CompileLoopBackwards(cs, atts, i, run) ==
    IF i > Len(atts) THEN run
    ELSE CompileAttachment(cs, CompileLoopBackwards(cs, atts, i + 1, run), atts[i])

\* for attachment in strategy.attachments:
RECURSIVE CompileLoop(_, _, _, _)
CompileLoop(cs, atts, i, run) ==
    IF i > Len(atts) THEN run
    ELSE CompileLoop(cs, atts, i + 1, CompileAttachment(cs, run, atts[i]))

RECURSIVE ValidateLoop(_, _, _, _)
ValidateLoop(cs, atts, i, run) ==
    IF i > Len(atts) THEN run
    ELSE ValidateLoop(cs, atts, i + 1, ValidateAttachment(cs, run, atts[i]))

\* Validate universe (compile_strategy only).
UniverseIssues(universe) ==
    IF Len(universe) = 0
    THEN << Issue("error", "EMPTY_UNIVERSE", "Strategy has no symbols in universe",
                  PlainPath("universe")) >>
    ELSE <<>>

\* Every compiled card is counted, whatever its role.
CountAnyRole(compiled_cards, role) == Len(compiled_cards)
CountRole(compiled_cards, role) ==
    Cardinality({i \in 1..Len(compiled_cards) : compiled_cards[i].role = role})

\* Validate composition.
CompositionIssues(compiled_cards) ==
    LET entry_count == CountRole(compiled_cards, "entry")
        exit_count == CountRole(compiled_cards, "exit")
    IN  (IF entry_count = 0
         THEN << Issue("error", "NO_ENTRIES", "Strategy has no entry cards attached",
                       PlainPath("attachments")) >>
         ELSE <<>>)
        \o
        (IF exit_count = 0
         THEN << Issue("warning", "NO_EXITS", "Strategy has no exit cards attached",
                       PlainPath("attachments")) >>
         ELSE <<>>)
        \o
        (IF exit_count > 1
         THEN << Issue("warning", "MULTIPLE_EXITS", "Strategy has several exit cards",
                       PlainPath("attachments")) >>
         ELSE <<>>)

\* entry.intermarket_trigger with event.lead_follow present
HasLeadFollow(cc) ==
    /\ cc.type = "entry.intermarket_trigger"
    /\ HasKey(cc.effective_slots, "event")
    /\ HasKey(Get(cc.effective_slots, "event"), "lead_follow")

ContextSymbol(cc) ==
    IF HasKey(cc.effective_slots, "context")
    THEN GetOrNone(Get(cc.effective_slots, "context"), "symbol")
    ELSE JNull

FollowerSymbol(cc) ==
    GetOrNone(Get(Get(cc.effective_slots, "event"), "lead_follow"), "follower_symbol")

\* The context symbol counted for every archetype.
TradedSymbolFromContext(cc) == ContextSymbol(cc)

\* The value of `symbol` at `if symbol: traded_symbols.add(symbol)` for one
\* compiled entry card.
TradedSymbol(cc) == IF HasLeadFollow(cc) THEN FollowerSymbol(cc) ELSE ContextSymbol(cc)

\* traded_symbols after the loop over the compiled cards
TradedSymbols(compiled_cards) ==
    {TradedSymbol(compiled_cards[i]) :
        i \in {j \in 1..Len(compiled_cards) :
                 compiled_cards[j].role = "entry" /\ Truthy(TradedSymbol(compiled_cards[j]))}}

\* The MVP_SINGLE_ASSET_VIOLATION issues, in the order of the compiled cards.
RECURSIVE SingleAssetViolations(_, _)
SingleAssetViolations(compiled_cards, i) ==
    IF i > Len(compiled_cards) THEN <<>>
    ELSE LET cc == compiled_cards[i] IN
         (IF cc.role = "entry" /\ HasLeadFollow(cc) /\ ContextSymbol(cc) # FollowerSymbol(cc)
          THEN << Issue("error", "MVP_SINGLE_ASSET_VIOLATION",
                        "context.symbol must equal event.lead_follow.follower_symbol",
                        AttPath(cc.card_id, ".effective_slots")) >>
          ELSE <<>>)
         \o SingleAssetViolations(compiled_cards, i + 1)

\* The membership test left out.
InUniverseAlways(universe, symbol) == TRUE

\* traded_symbol in strategy.universe
InUniverse(universe, symbol) ==
    \E i \in 1..Len(universe) : JStr(universe[i]) = symbol

\* Verify single traded asset.
TradedAssetIssues(compiled_cards, universe) ==
    LET traded_symbols == TradedSymbols(compiled_cards) IN
    IF Cardinality(traded_symbols) > 1
    THEN << Issue("error", "MVP_MULTIPLE_ASSETS", "Strategy trades multiple assets",
                  PlainPath("attachments")) >>
    ELSE IF Cardinality(traded_symbols) = 1
    THEN LET traded_symbol == CHOOSE x \in traded_symbols : TRUE IN
         IF Len(universe) > 0 /\ Len(universe) > 1
         THEN << Issue("error", "MVP_UNIVERSE_MISMATCH",
                       "Strategy universe contains multiple symbols",
                       PlainPath("universe")) >>
         ELSE IF Len(universe) > 0 /\ ~InUniverse(universe, traded_symbol)
         THEN << Issue("error", "MVP_UNIVERSE_MISMATCH",
                       "Traded symbol not in strategy universe",
                       PlainPath("universe")) >>
         ELSE <<>>
    ELSE <<>>

\* MVP: Single-asset trading guarantee.
SingleAssetIssues(compiled_cards, universe) ==
    SingleAssetViolations(compiled_cards, 1) \o TradedAssetIssues(compiled_cards, universe)

CountSeverity(issues, severity) ==
    Cardinality({i \in 1..Len(issues) : issues[i].severity = severity})

\* Timeframe to hours mapping, in minutes per bar so that lookback stays an
\* integer: lookback_hours = min_bars * hours_per_bar is kept as minutes.
MinutesPerBar(tf) ==
    IF tf = JStr("1m") THEN 1
    ELSE IF tf = JStr("5m") THEN 5
    ELSE IF tf = JStr("15m") THEN 15
    ELSE IF tf = JStr("1h") THEN 60
    ELSE IF tf = JStr("4h") THEN 240
    ELSE IF tf = JStr("1d") THEN 1440
    ELSE 60

\* Convert data requirements to list.
DataRequirements(map) ==
    [i \in 1..Len(map) |->
        [symbol |-> map[i].symbol, tf |-> map[i].tf, min_bars |-> map[i].min_bars,
         lookback_minutes |-> map[i].min_bars * MinutesPerBar(map[i].tf)]]

Summary(issues, compiled_cards) ==
    [errors |-> CountSeverity(issues, "error"),
     warnings |-> CountSeverity(issues, "warning"),
     cards_validated |-> Len(compiled_cards)]

\* Any issue at all, a warning included, blocks the plan.
StatusHintAnyIssue(issues) == IF Len(issues) = 0 THEN "ready" ELSE "fix_required"

\* status_hint = "ready" if error_count == 0 else "fix_required"
StatusHint(issues) == IF CountSeverity(issues, "error") = 0 THEN "ready" ELSE "fix_required"

\* The checks of compile_strategy after the attachment loop.
CompileChecks(run, universe) ==
    [run EXCEPT !.issues = @ \o UniverseIssues(universe)
                             \o CompositionIssues(run.compiled_cards)
                             \o SingleAssetIssues(run.compiled_cards, universe)]

\* The attachment loop and the checks of compile_strategy on strategy
\* document s over card collection cs: the final issues, compiled_cards and
\* data_requirements_map.
CompileRun(cs, s) == CompileChecks(CompileLoop(cs, s.attachments, 1, EmptyRun), s.universe)

NoPlan(sid) == [strategy_id |-> sid, universe |-> <<>>, cards |-> <<>>, data_requirements |-> <<>>]

\* CompileStrategyResponse built from the final run.  compiled = None is
\* has_compiled = FALSE with an empty plan.
CompileResponseOf(run, sid, s) ==
    [status_hint |-> StatusHint(run.issues),
     has_compiled |-> StatusHint(run.issues) = "ready",
     compiled |-> IF StatusHint(run.issues) = "ready"
                  THEN [strategy_id |-> sid, universe |-> s.universe,
                        cards |-> run.compiled_cards,
                        data_requirements |-> DataRequirements(run.data_requirements_map)]
                  ELSE NoPlan(sid),
     issues |-> run.issues,
     validation_summary |-> Summary(run.issues, run.compiled_cards)]

\* CompileStrategyResponse of compile_strategy for the existing strategy sid.
CompileResponse(cs, sid, s) == CompileResponseOf(CompileRun(cs, s), sid, s)

\* The checks of validate_strategy after the attachment loop.
ValidateChecks(run, universe) ==
    [run EXCEPT !.issues = @ \o CompositionIssues(run.compiled_cards)
                             \o SingleAssetIssues(run.compiled_cards, universe)]

ValidateRun(cs, s) == ValidateChecks(ValidateLoop(cs, s.attachments, 1, EmptyRun), s.universe)

ValidateResponseOf(run, sid) ==
    [status_hint |-> StatusHint(run.issues),
     has_compiled |-> FALSE,
     compiled |-> NoPlan(sid),
     issues |-> run.issues,
     validation_summary |-> Summary(run.issues, run.compiled_cards)]

\* CompileStrategyResponse of validate_strategy.
ValidateResponse(cs, sid, s) == ValidateResponseOf(ValidateRun(cs, s), sid)

(***************************************************************************)
(* Inputs of the tool calls.                                               *)
(***************************************************************************)
MaxVersion == 3

BTC == "BTC-USD"
ETH == "ETH-USD"

Ctx(symbol, tf) == D2("symbol", JStr(symbol), "tf", JStr(tf))
SlotsPlain(symbol) == D1("context", Ctx(symbol, "1h"))
SlotsLead(symbol, follower) ==
    D2("context", Ctx(symbol, "1h"),
       "event", D1("lead_follow", D1("follower_symbol", JStr(follower))))
SlotsBadMult ==
    D2("context", Ctx(BTC, "1h"), "event", D1("dip_band", D1("mult", JNum(10))))

TrendBTC == [type |-> "entry.trend_pullback", slots |-> SlotsPlain(BTC)]
TrendETH == [type |-> "entry.trend_pullback", slots |-> SlotsPlain(ETH)]
InterETH == [type |-> "entry.intermarket_trigger", slots |-> SlotsLead(ETH, BTC)]
ExitBTC == [type |-> "exit.rule_trigger", slots |-> SlotsPlain(BTC)]
TrendBad == [type |-> "entry.trend_pullback", slots |-> SlotsBadMult]
Unknown == [type |-> "signal.unknown", slots |-> SlotsPlain(BTC)]

\* slots offered to update_card
SlotInputs == {SlotsPlain(BTC), SlotsBadMult}

OverridesNone == JEmpty
OverridesTfNull == D1("context", D1("tf", JNull))

\* role = None is "".
NoRole == ""

\* Attachment options: overrides, follow_latest, enabled.
Opt(overrides, follow_latest, enabled) ==
    [overrides |-> overrides, follow_latest |-> follow_latest, enabled |-> enabled]
Pinned == Opt(OverridesNone, FALSE, TRUE)
Following == Opt(OverridesNone, TRUE, TRUE)
Disabled == Opt(OverridesNone, FALSE, FALSE)
PinnedTfNull == Opt(OverridesTfNull, FALSE, TRUE)

AddReq(sid, ci, role, o) == [sid |-> sid, ci |-> ci, role |-> role, o |-> o]

\* add_card calls offered: for every strategy id the store can assign, cards
\* of each archetype, pinned / following / disabled / with an override that
\* breaks the schema; and one call per way to fail.
AddCardInputs(sids) ==
    { AddReq(sid, x[1], NoRole, x[2]) :
        sid \in sids,
        x \in { <<TrendBTC, Pinned>>, <<TrendETH, Following>>, <<TrendETH, Disabled>>,
                <<InterETH, Pinned>>, <<InterETH, PinnedTfNull>>,
                <<ExitBTC, Pinned>> } }
    \cup
    { AddReq(0, TrendBTC, NoRole, Pinned) }
    \cup
    { AddReq(sid, x[1], x[2], Pinned) :
        sid \in sids,
        x \in { <<Unknown, NoRole>>, <<TrendBad, NoRole>>, <<TrendBTC, "sizing">> } }

UniverseInputs == { <<>>, <<BTC>>, <<BTC, ETH>> }

\* update_strategy_meta arguments; has_x = FALSE is x = None.
Meta(has_name, name, has_status, status, has_universe, universe) ==
    [has_name |-> has_name, name |-> name, has_status |-> has_status, status |-> status,
     has_universe |-> has_universe, universe |-> universe]
MetaInputs ==
    { Meta(FALSE, "", FALSE, "", TRUE, u) : u \in UniverseInputs }
    \cup
    { Meta(TRUE, "Updated Name", TRUE, "ready", TRUE, <<BTC, ETH>>),
      Meta(FALSE, "", TRUE, "bogus", FALSE, <<>>) }

VALID_STATUSES == {"draft", "ready", "running", "paused", "stopped", "error"}
\* VALID_ROLES of strategy_tools (add_card) and of card_tools (create_card)
VALID_ROLES == {"entry", "gate", "exit", "overlay"}
CARD_TOOLS_VALID_ROLES == {"entry", "gate", "exit", "sizing", "risk", "overlay"}

\* type.split(".", 1)[0] if "." in type else type, on the offered type ids
TypePrefix(t) ==
    IF t \in {"entry.trend_pullback", "entry.intermarket_trigger"} THEN "entry"
    ELSE IF t = "exit.rule_trigger" THEN "exit"
    ELSE "signal"

StrategyIds == 1..MaxStrategies
CardIds == 1..MaxCards
\* ids offered to the tools: the ids the store can assign, and 0, which it
\* never assigns.
StrategyIdInputs == {0} \cup StrategyIds
CardIdInputs == {0} \cup CardIds

(***************************************************************************)
(* Repositories.                                                           *)
(***************************************************************************)
\* CardRepository.create: stamps created_at = updated_at = now, stores under
\* a fresh id.
CardCreate(cs, id, type, slots, etag, t) ==
    Put(cs, id, [type |-> type, slots |-> slots, schema_etag |-> etag,
                 created_at |-> t, updated_at |-> t])

\* The update writes the card as a new document: created_at is stamped again.
CardUpdateRestamped(cs, id, card, t) ==
    [cs EXCEPT ![id] = [card EXCEPT !.updated_at = t, !.created_at = t]]

\* CardRepository.update of an existing card: refreshes updated_at and
\* writes the document.
CardUpdate(cs, id, card, t) ==
    [cs EXCEPT ![id] = [card EXCEPT !.updated_at = t]]

\* CardRepository.delete of an existing card.
CardDelete(cs, id) == Remove(cs, id)

\* StrategyRepository.create
StrategyCreate(ss, id, name, universe, t) ==
    Put(ss, id, [owner_id |-> "", name |-> name, status |-> "draft",
                 universe |-> universe, attachments |-> <<>>, version |-> 1,
                 created_at |-> t, updated_at |-> t])

\* The document written without the version increment.
StrategyUpdatedSameVersion(existing, s, t) == [s EXCEPT !.updated_at = t]

\* StrategyRepository.update of an existing strategy: the document written
\* for the in-memory strategy s.
StrategyUpdated(existing, s, t) ==
    [s EXCEPT !.updated_at = t, !.version = existing.version + 1]

StrategyUpdate(ss, id, s, t) == [ss EXCEPT ![id] = StrategyUpdated(ss[id], s, t)]

Attachment(card_id, role, o, revision) ==
    [card_id |-> card_id, role |-> role, enabled |-> o.enabled,
     overrides |-> o.overrides, follow_latest |-> o.follow_latest,
     card_revision_id |-> revision]

\* Every attachment follows the latest revision: no revision is pinned.
RevisionNeverPinned(follow_latest, card) == NoRevision

\* card_revision_id = None; if not follow_latest: created_card.updated_at
RevisionAtAttach(follow_latest, card) ==
    IF follow_latest THEN NoRevision ELSE card.updated_at

Failed(op, code) == [op |-> op, code |-> code]

\* The clients whose tool calls the server may run at the same time, and the
\* locals of a call between two operations on the store.
Clients == {"a", "b"}
NoCall == [pc |-> "idle"]

(***************************************************************************)
(* Initial state: empty collections, clock at its first reading.           *)
(***************************************************************************)
MergeIdle ==
    /\ mBase = JEmpty
    /\ mOverride = JEmpty
    /\ mResult = JEmpty
    /\ mBaseAfter = JEmpty
    /\ mPc = "idle"

StoreInit ==
    /\ cards = EmptyStore
    /\ strategies = EmptyStore
    /\ now = 0
    /\ nextCardId = 1
    /\ nextStrategyId = 1
    /\ last = [op |-> "init", code |-> "OK"]
    /\ calls = [p \in Clients |-> NoCall]

Init == StoreInit /\ MergeIdle

(***************************************************************************)
(* The wall clock advances between tool calls; two calls may read the same *)
(* instant.                                                                *)
(***************************************************************************)
Tick ==
    /\ now < MaxClock
    /\ now' = now + 1
    /\ UNCHANGED <<cards, strategies, nextCardId, nextStrategyId, last>>
    /\ UNCHANGED <<mergeVars, calls>>

(***************************************************************************)
(* Strategy tools.                                                         *)
(***************************************************************************)
\* strategy_id = None
NoStrategy == -1

\* thread_id values offered to create_strategy; thread_id = None is "".
ThreadIdInputs == {"", "thread-1"}

\* StrategyRepository.get_by_thread_id: where("thread_id", "==", thread_id)
\* .limit(1) over the stored documents; None is NoStrategy.
get_by_thread_id(ss, thread_id) ==
    LET docs == {id \in DOMAIN ss : "thread_id" \in DOMAIN ss[id]
                                     /\ ss[id].thread_id = thread_id}
    IN  IF docs = {} THEN NoStrategy ELSE CHOOSE id \in docs : TRUE

\* Strategy(id="", owner_id=owner_id, thread_id=thread_id, ...): the model
\* class declares no field thread_id, the keyword is ignored, and to_dict
\* writes the declared fields only.
CreateStrategy(universe, thread_id) ==
    /\ nextStrategyId <= MaxStrategies
    /\ strategies' = StrategyCreate(strategies, nextStrategyId, "S", universe, now)
    /\ nextStrategyId' = nextStrategyId + 1
    /\ last' = [op |-> "create_strategy", code |-> "OK", sid |-> nextStrategyId]
    /\ UNCHANGED <<cards, now, nextCardId>>
    /\ UNCHANGED <<mergeVars, calls>>

\* GetStrategyResponse for an existing strategy
GetStrategyResponse(ss, sid) ==
    [strategy_id |-> sid, owner_id |-> ss[sid].owner_id, name |-> ss[sid].name,
     status |-> ss[sid].status, universe |-> ss[sid].universe,
     attachments |-> ss[sid].attachments, version |-> ss[sid].version,
     created_at |-> ss[sid].created_at, updated_at |-> ss[sid].updated_at]

GetStrategy(sid) ==
    /\ last' = IF sid \notin DOMAIN strategies
               THEN Failed("get_strategy", "STRATEGY_NOT_FOUND")
               ELSE [op |-> "get_strategy", code |-> "OK", sid |-> sid,
                     resp |-> GetStrategyResponse(strategies, sid)]
    /\ UNCHANGED <<cards, strategies, now, nextCardId, nextStrategyId>>
    /\ UNCHANGED <<mergeVars, calls>>

\* update only provided fields
ApplyMeta(s, m) ==
    [s EXCEPT !.name = IF m.has_name THEN m.name ELSE @,
              !.status = IF m.has_status THEN m.status ELSE @,
              !.universe = IF m.has_universe THEN m.universe ELSE @]

UpdateStrategyMeta(sid, m) ==
    /\ IF sid \notin DOMAIN strategies
       THEN /\ last' = Failed("update_strategy_meta", "STRATEGY_NOT_FOUND")
            /\ UNCHANGED strategies
       ELSE IF m.has_status /\ m.status \notin VALID_STATUSES
       THEN /\ last' = Failed("update_strategy_meta", "INVALID_STATUS")
            /\ UNCHANGED strategies
       ELSE /\ strategies[sid].version < MaxVersion
            /\ strategies' = StrategyUpdate(strategies, sid, ApplyMeta(strategies[sid], m), now)
            /\ last' = [op |-> "update_strategy_meta", code |-> "OK", sid |-> sid,
                        before |-> strategies[sid], at |-> now]
    /\ UNCHANGED <<cards, now, nextCardId, nextStrategyId>>
    /\ UNCHANGED <<mergeVars, calls>>

AddCard(sid, ci, role, o) ==
    LET resolved == IF role = NoRole THEN TypePrefix(ci.type) ELSE role IN
    /\ IF sid \notin DOMAIN strategies
       THEN /\ last' = Failed("add_card", "STRATEGY_NOT_FOUND")
            /\ UNCHANGED <<cards, strategies, nextCardId>>
       ELSE IF ~HasSchema(ci.type)
       THEN /\ last' = Failed("add_card", "ARCHETYPE_NOT_FOUND")
            /\ UNCHANGED <<cards, strategies, nextCardId>>
       ELSE IF Len(ValidateSlots(ci.type, ci.slots)) > 0
       THEN /\ last' = Failed("add_card", "SCHEMA_VALIDATION_ERROR")
            /\ UNCHANGED <<cards, strategies, nextCardId>>
       ELSE IF resolved \notin VALID_ROLES
       THEN /\ last' = Failed("add_card", "INVALID_ROLE")
            /\ UNCHANGED <<cards, strategies, nextCardId>>
       ELSE /\ nextCardId <= MaxCards
            /\ strategies[sid].version < MaxVersion
            /\ cards' = CardCreate(cards, nextCardId, ci.type, ci.slots,
                                   get_by_type_id(ci.type).etag, now)
            /\ nextCardId' = nextCardId + 1
            /\ strategies' = StrategyUpdate(strategies, sid,
                   [strategies[sid] EXCEPT !.attachments =
                       Append(@, Attachment(nextCardId, resolved, o,
                                            RevisionAtAttach(o.follow_latest,
                                                             cards'[nextCardId])))],
                   now)
            /\ last' = [op |-> "add_card", code |-> "OK", sid |-> sid, cid |-> nextCardId,
                        before |-> strategies[sid]]
    /\ UNCHANGED <<now, nextStrategyId>>
    /\ UNCHANGED <<mergeVars, calls>>

ValidateStrategy(sid) ==
    /\ last' = IF sid \notin DOMAIN strategies
               THEN Failed("validate_strategy", "STRATEGY_NOT_FOUND")
               ELSE [op |-> "validate_strategy", code |-> "OK", sid |-> sid,
                     resp |-> ValidateResponse(cards, sid, strategies[sid])]
    /\ UNCHANGED <<cards, strategies, now, nextCardId, nextStrategyId>>
    /\ UNCHANGED <<mergeVars, calls>>

\* The response returned, with the final locals of the call.
CompileOutcome(run, sid, s) ==
    [op |-> "compile_strategy", code |-> "OK", sid |-> sid,
     resp |-> CompileResponseOf(run, sid, s), run |-> run]

\* The compiler records its verdict on the strategy it compiled.
CompileStrategyMarking(sid) ==
    /\ last' = IF sid \notin DOMAIN strategies
               THEN Failed("compile_strategy", "STRATEGY_NOT_FOUND")
               ELSE CompileOutcome(CompileRun(cards, strategies[sid]), sid, strategies[sid])
    /\ strategies' = IF sid \notin DOMAIN strategies THEN strategies
                     ELSE [strategies EXCEPT ![sid].status = "compiled"]
    /\ UNCHANGED <<cards, now, nextCardId, nextStrategyId>>
    /\ UNCHANGED <<mergeVars, calls>>

CompileStrategy(sid) ==
    /\ last' = IF sid \notin DOMAIN strategies
               THEN Failed("compile_strategy", "STRATEGY_NOT_FOUND")
               ELSE CompileOutcome(CompileRun(cards, strategies[sid]), sid, strategies[sid])
    /\ UNCHANGED <<cards, strategies, now, nextCardId, nextStrategyId>>
    /\ UNCHANGED <<mergeVars, calls>>

(***************************************************************************)
(* Card tools.                                                             *)
(***************************************************************************)

CreateReq(ci, sid, role, order, o) ==
    [ci |-> ci, sid |-> sid, role |-> role, order |-> order, o |-> o]

\* create_card calls offered; order = None is 0.
CreateCardInputs(sids) ==
    { CreateReq(TrendBTC, NoStrategy, NoRole, 0, Pinned),
      CreateReq(Unknown, NoStrategy, NoRole, 0, Pinned),
      CreateReq(TrendBad, NoStrategy, NoRole, 0, Pinned),
      CreateReq(TrendBTC, 0, "entry", 0, Pinned) }
    \cup
    { CreateReq(TrendBTC, sid, x[1], x[2], Pinned) :
        sid \in sids,
        x \in { <<"entry", 0>>, <<"sizing", 1>>, <<NoRole, 0>>, <<"bogus", 0>> } }

CreateCard(ci, sid, role, order, o) ==
    /\ IF ~HasSchema(ci.type)
       THEN /\ last' = Failed("create_card", "ARCHETYPE_NOT_FOUND")
            /\ UNCHANGED <<cards, strategies, nextCardId>>
       ELSE IF Len(ValidateSlots(ci.type, ci.slots)) > 0
       THEN /\ last' = Failed("create_card", "SCHEMA_VALIDATION_ERROR")
            /\ UNCHANGED <<cards, strategies, nextCardId>>
       ELSE /\ nextCardId <= MaxCards
            /\ cards' = CardCreate(cards, nextCardId, ci.type, ci.slots,
                                   get_by_type_id(ci.type).etag, now)
            /\ nextCardId' = nextCardId + 1
            /\ IF sid = NoStrategy
               THEN /\ last' = [op |-> "create_card", code |-> "OK", cid |-> nextCardId,
                                attached |-> FALSE]
                    /\ UNCHANGED strategies
               ELSE IF role = NoRole \/ role \notin CARD_TOOLS_VALID_ROLES
               \* StructuredToolError(..., retryable=False, ...): the
               \* constructor takes no such argument
               THEN /\ last' = [op |-> "create_card", code |-> "TypeError", cid |-> nextCardId]
                    /\ UNCHANGED strategies
               ELSE IF sid \notin DOMAIN strategies
               THEN /\ last' = [op |-> "create_card", code |-> "STRATEGY_NOT_FOUND",
                                cid |-> nextCardId]
                    /\ UNCHANGED strategies
               ELSE IF order = 0 /\ Len(strategies[sid].attachments) > 0
               \* max(att.order for att in strategy.attachments): Attachment
               \* has no field `order`
               THEN /\ last' = [op |-> "create_card", code |-> "AttributeError",
                                cid |-> nextCardId]
                    /\ UNCHANGED strategies
               ELSE /\ strategies[sid].version < MaxVersion
                    /\ strategies' = StrategyUpdate(strategies, sid,
                           [strategies[sid] EXCEPT !.attachments =
                               Append(@, Attachment(nextCardId, role, o,
                                                    RevisionAtAttach(o.follow_latest,
                                                                     cards'[nextCardId])))],
                           now)
                    /\ last' = [op |-> "create_card", code |-> "OK", cid |-> nextCardId,
                                attached |-> TRUE, sid |-> sid, before |-> strategies[sid]]
    /\ UNCHANGED <<now, nextStrategyId>>
    /\ UNCHANGED <<mergeVars, calls>>

UpdateCard(cid, slots) ==
    /\ IF cid \notin DOMAIN cards
       THEN /\ last' = Failed("update_card", "CARD_NOT_FOUND")
            /\ UNCHANGED cards
       ELSE IF ~HasSchema(cards[cid].type)
       THEN /\ last' = Failed("update_card", "ARCHETYPE_NOT_FOUND")
            /\ UNCHANGED cards
       ELSE IF Len(ValidateSlots(cards[cid].type, slots)) > 0
       THEN /\ last' = Failed("update_card", "SCHEMA_VALIDATION_ERROR")
            /\ UNCHANGED cards
       ELSE /\ cards' = CardUpdate(cards, cid,
                            [type |-> cards[cid].type, slots |-> slots,
                             schema_etag |-> get_by_type_id(cards[cid].type).etag,
                             created_at |-> cards[cid].created_at, updated_at |-> now],
                            now)
            /\ last' = [op |-> "update_card", code |-> "OK", cid |-> cid,
                        before |-> cards[cid]]
    /\ UNCHANGED <<strategies, now, nextCardId, nextStrategyId>>
    /\ UNCHANGED <<mergeVars, calls>>

DeleteCard(cid) ==
    /\ IF cid \notin DOMAIN cards
       THEN /\ last' = Failed("delete_card", "CARD_NOT_FOUND")
            /\ UNCHANGED cards
       ELSE /\ cards' = CardDelete(cards, cid)
            /\ last' = [op |-> "delete_card", code |-> "OK", cid |-> cid,
                        before |-> strategies]
    /\ UNCHANGED <<strategies, now, nextCardId, nextStrategyId>>
    /\ UNCHANGED <<mergeVars, calls>>

Next ==
    \/ Tick
    \/ \E u \in UniverseInputs, T \in ThreadIdInputs : CreateStrategy(u, T)
    \/ \E sid \in StrategyIdInputs : GetStrategy(sid)
    \/ \E sid \in StrategyIdInputs, m \in MetaInputs : UpdateStrategyMeta(sid, m)
    \/ \E r \in AddCardInputs(StrategyIds) : AddCard(r.sid, r.ci, r.role, r.o)
    \/ \E sid \in StrategyIdInputs : ValidateStrategy(sid)
    \/ \E sid \in StrategyIdInputs : CompileStrategy(sid)
    \/ \E r \in CreateCardInputs(StrategyIds) : CreateCard(r.ci, r.sid, r.role, r.order, r.o)
    \/ \E cid \in CardIdInputs, slots \in SlotInputs : UpdateCard(cid, slots)
    \/ \E cid \in CardIdInputs : DeleteCard(cid)

Spec == Init /\ [][Next]_vars

(***************************************************************************)
(* deep_merge on its own: the two arguments are drawn from the dicts of    *)
(* nesting depth at most MergeDepth over the keys MergeKeySet, the base    *)
(* with the leaves BaseLeaves and the override with the leaves             *)
(* OverrideLeaves (scalars, None and lists; the two sets are disjoint so   *)
(* that the origin of every leaf of the result is visible).                *)
(***************************************************************************)
MergeDepth == 2
MergeKeySet == {"a", "b"}
BaseLeaves == {JNum(1), JArr(<<JNum(1)>>)}
OverrideLeaves == {JNull, JArr(<<JNum(2), JNum(3)>>)}

RECURSIVE JsonDicts(_, _)
JsonDicts(leaves, depth) ==
    IF depth = 0 THEN {}
    ELSE LET values == leaves \cup JsonDicts(leaves, depth - 1)
         IN  {JObj(f) : f \in UNION {[ks -> values] : ks \in SUBSET MergeKeySet}}

InitMerge ==
    /\ StoreInit
    /\ mBase \in JsonDicts(BaseLeaves, MergeDepth)
    /\ mOverride \in JsonDicts(OverrideLeaves, MergeDepth)
    /\ mResult = JEmpty
    /\ mBaseAfter = JEmpty
    /\ mPc = "ready"

\* result = deep_merge(base, override)
MergeDone(m) ==
    /\ mResult' = m.result
    /\ mBaseAfter' = m.base_after

DeepMergeCall ==
    /\ mPc = "ready"
    /\ MergeDone(MergeCall(mBase, mOverride))
    /\ mPc' = "done"
    /\ UNCHANGED <<mBase, mOverride>>
    /\ UNCHANGED <<storeVars, calls>>

MergeNext == DeepMergeCall

MergeSpec == InitMerge /\ [][MergeNext]_vars

(***************************************************************************)
(* Tool calls served at the same time.  Each client issues one mutating    *)
(* call; the call is a sequence of operations on the store (a get, a       *)
(* create, the get and the write of StrategyRepository.update), and the    *)
(* operations of two calls interleave.  calls[p] holds the locals of the   *)
(* call of client p between two operations.                                *)
(***************************************************************************)
\* add_card up to card_repo.create: strategy = strategy_repo.get_by_id(...),
\* the schema, the slots and the role are checked.
AddCardGet(p, r) ==
    LET resolved == IF r.role = NoRole THEN TypePrefix(r.ci.type) ELSE r.role IN
    /\ calls[p].pc = "idle"
    /\ nextCardId + Cardinality({q \in Clients : calls[q].pc = "create"}) <= MaxCards
    /\ IF r.sid \notin DOMAIN strategies
       THEN /\ last' = Failed("add_card", "STRATEGY_NOT_FOUND")
            /\ calls' = [calls EXCEPT ![p] = [pc |-> "raised"]]
       ELSE IF ~HasSchema(r.ci.type)
       THEN /\ last' = Failed("add_card", "ARCHETYPE_NOT_FOUND")
            /\ calls' = [calls EXCEPT ![p] = [pc |-> "raised"]]
       ELSE IF Len(ValidateSlots(r.ci.type, r.ci.slots)) > 0
       THEN /\ last' = Failed("add_card", "SCHEMA_VALIDATION_ERROR")
            /\ calls' = [calls EXCEPT ![p] = [pc |-> "raised"]]
       ELSE IF resolved \notin VALID_ROLES
       THEN /\ last' = Failed("add_card", "INVALID_ROLE")
            /\ calls' = [calls EXCEPT ![p] = [pc |-> "raised"]]
       ELSE /\ calls' = [calls EXCEPT ![p] =
                            [pc |-> "create", op |-> "add_card", sid |-> r.sid,
                             r |-> r, role |-> resolved, strategy |-> strategies[r.sid]]]
            /\ UNCHANGED last
    /\ UNCHANGED <<cards, strategies, now, nextCardId, nextStrategyId>>
    /\ UNCHANGED mergeVars

\* created_card = card_repo.create(card); the attachment is appended to the
\* strategy held by the call.
AddCardCreate(p) ==
    LET c == calls[p] IN
    /\ c.pc = "create"
    /\ cards' = CardCreate(cards, nextCardId, c.r.ci.type, c.r.ci.slots,
                           get_by_type_id(c.r.ci.type).etag, now)
    /\ nextCardId' = nextCardId + 1
    /\ calls' = [calls EXCEPT ![p] =
                    [pc |-> "update", op |-> "add_card", sid |-> c.sid, cid |-> nextCardId,
                     strategy |-> [c.strategy EXCEPT !.attachments =
                         Append(@, Attachment(nextCardId, c.role, c.r.o,
                                              RevisionAtAttach(c.r.o.follow_latest,
                                                               cards'[nextCardId])))]]]
    /\ UNCHANGED <<strategies, now, nextStrategyId, last>>
    /\ UNCHANGED mergeVars

\* update_strategy_meta up to strategy_repo.update: the strategy is read and
\* the provided fields are set on the copy held by the call.
MetaGet(p, sid, m) ==
    /\ calls[p].pc = "idle"
    /\ IF sid \notin DOMAIN strategies
       THEN /\ last' = Failed("update_strategy_meta", "STRATEGY_NOT_FOUND")
            /\ calls' = [calls EXCEPT ![p] = [pc |-> "raised"]]
       ELSE IF m.has_status /\ m.status \notin VALID_STATUSES
       THEN /\ last' = Failed("update_strategy_meta", "INVALID_STATUS")
            /\ calls' = [calls EXCEPT ![p] = [pc |-> "raised"]]
       ELSE /\ calls' = [calls EXCEPT ![p] =
                            [pc |-> "update", op |-> "update_strategy_meta", sid |-> sid,
                             m |-> m, strategy |-> ApplyMeta(strategies[sid], m)]]
            /\ UNCHANGED last
    /\ UNCHANGED <<cards, strategies, now, nextCardId, nextStrategyId>>
    /\ UNCHANGED mergeVars

\* StrategyRepository.update, first half: existing = self.get_by_id(...);
\* strategy.updated_at = now; strategy.version = existing.version + 1
UpdateGet(p) ==
    LET c == calls[p] IN
    /\ c.pc = "update"
    /\ calls' = [calls EXCEPT ![p] =
                    [c EXCEPT !.pc = "write",
                              !.strategy = StrategyUpdated(strategies[c.sid], c.strategy, now)]]
    /\ UNCHANGED <<cards, strategies, now, nextCardId, nextStrategyId, last>>
    /\ UNCHANGED mergeVars

\* StrategyRepository.update, second half: doc_ref.update(strategy.to_dict())
\* writes every field of the strategy held by the call; the tool returns.
UpdateWrite(p) ==
    LET c == calls[p] IN
    /\ c.pc = "write"
    /\ strategies' = [strategies EXCEPT ![c.sid] = c.strategy]
    /\ calls' = [calls EXCEPT ![p] = [c EXCEPT !.pc = "returned"]]
    /\ last' = [op |-> c.op, code |-> "OK", sid |-> c.sid]
    /\ UNCHANGED <<cards, now, nextCardId, nextStrategyId>>
    /\ UNCHANGED mergeVars

RaceNext ==
    \/ Tick
    \/ \E u \in UniverseInputs, T \in ThreadIdInputs : CreateStrategy(u, T)
    \/ \E p \in Clients, r \in AddCardInputs(StrategyIds) : AddCardGet(p, r)
    \/ \E p \in Clients : AddCardCreate(p)
    \/ \E p \in Clients, sid \in StrategyIdInputs, m \in MetaInputs : MetaGet(p, sid, m)
    \/ \E p \in Clients : UpdateGet(p)
    \/ \E p \in Clients : UpdateWrite(p)

RaceSpec == Init /\ [][RaceNext]_vars

(***************************************************************************)
(* Tools that only read the catalog, the slot validator called on its own, *)
(* and the HTTP boundary.  They change no document: each call is recorded  *)
(* in `last` with its request and its outcome.                             *)
(***************************************************************************)
\* (type, slots) pairs offered to validate_slots_draft and create_card:
\* every archetype and an unknown type, with slots that pass, break a range,
\* carry a lead_follow event, miss the context, or miss context.tf.
DraftInputs ==
    { [type |-> t, slots |-> s] :
        t \in SchemaTypes \cup {"signal.unknown"},
        s \in { SlotsPlain(BTC), SlotsBadMult, SlotsLead(ETH, BTC), JEmpty,
                D1("context", D1("symbol", JStr(BTC))) } }

\* Every draft is reported valid.
DraftValidAlways(validation_errors) == TRUE

\* valid=len(validation_errors) == 0
DraftValid(validation_errors) == Len(validation_errors) = 0

\* validate_slots_draft(type, slots)
ValidateSlotsDraft(ci) ==
    /\ last' = IF ~HasSchema(ci.type)
               THEN [op |-> "validate_slots_draft", code |-> "ARCHETYPE_NOT_FOUND", req |-> ci]
               ELSE [op |-> "validate_slots_draft", code |-> "OK", req |-> ci,
                     resp |-> [type_id |-> ci.type,
                               valid |-> DraftValid(ValidateSlots(ci.type, ci.slots)),
                               errors |-> ValidateSlots(ci.type, ci.slots),
                               schema_etag |-> get_by_type_id(ci.type).etag]]
    /\ UNCHANGED <<cards, strategies, now, nextCardId, nextStrategyId>>
    /\ UNCHANGED <<mergeVars, calls>>

\* get_archetype_schema(type, if_none_match); if_none_match = None is <<>>.
\* A matching if_none_match changes nothing (`pass`).
GetArchetypeSchema(t, if_none_match) ==
    /\ last' = IF ~HasSchema(t)
               THEN [op |-> "get_archetype_schema", code |-> "ARCHETYPE_NOT_FOUND",
                     req |-> [type |-> t, if_none_match |-> if_none_match]]
               ELSE [op |-> "get_archetype_schema", code |-> "OK",
                     req |-> [type |-> t, if_none_match |-> if_none_match],
                     resp |-> [type_id |-> get_by_type_id(t).type_id,
                               etag |-> get_by_type_id(t).etag,
                               min_history_bars |-> get_by_type_id(t).min_history_bars]]
    /\ UNCHANGED <<cards, strategies, now, nextCardId, nextStrategyId>>
    /\ UNCHANGED <<mergeVars, calls>>

\* The schemas take the shapes of context and action from the common
\* definitions ("common_defs.schema.json#/$defs/ContextSpec",
\* ".../EntryActionSpec"): validating slots that hold one of these
\* properties follows the $ref.
ReachesPool(slots) == HasKey(slots, "context") \/ HasKey(slots, "action")

\* _validate_slots_against_schema with the file data/common_defs.json
\* present (pool) or missing.  Without the file the store is empty and
\* jsonschema.validate runs without resolver: following the $ref raises
\* RefResolutionError, which is no ValidationError and passes the except
\* clause.  With the file it is ValidateSlots, as in every tool above.
ValidateSlotsWithPool(pool, t, slots) ==
    IF ~pool /\ ReachesPool(slots)
    THEN [raised |-> "RefResolutionError", errors |-> <<>>]
    ELSE [raised |-> "", errors |-> ValidateSlots(t, slots)]

\* One call of the validator on the schema of a known archetype.
ValidatorCall(pool, ci) ==
    /\ HasSchema(ci.type)
    /\ last' = [op |-> "_validate_slots_against_schema",
                code |-> IF ValidateSlotsWithPool(pool, ci.type, ci.slots).raised = ""
                         THEN "OK"
                         ELSE ValidateSlotsWithPool(pool, ci.type, ci.slots).raised,
                req |-> ci, pool |-> pool,
                errors |-> ValidateSlotsWithPool(pool, ci.type, ci.slots).errors]
    /\ UNCHANGED <<cards, strategies, now, nextCardId, nextStrategyId>>
    /\ UNCHANGED <<mergeVars, calls>>

(***************************************************************************)
(* Static token authentication (auth_middleware).  A header value is a     *)
(* sequence of pieces: the literal "Bearer ", a blank, or a word without   *)
(* blanks; the empty sequence is the missing header (headers.get default). *)
(***************************************************************************)
\* MCP_AUTH_TOKEN
AuthToken == "secret"

ExemptPaths == {"/", "/health", "/ready"}

\* Requests offered to the server.
RequestInputs ==
    { [path |-> p, method |-> m, authorization |-> h] :
        p \in ExemptPaths \cup {"/mcp", "/api/strategies/x"},
        m \in {"GET", "POST", "OPTIONS"},
        h \in { <<>>, <<"Bearer ", AuthToken>>, <<"Bearer ", "wrong">>, <<AuthToken>>,
                <<"Basic ", AuthToken>>, <<"Bearer ">>, <<"Bearer ", " ", AuthToken>>,
                <<"Bearer ", "Bearer ", AuthToken>> } }

\* auth_header.startswith("Bearer ")
StartsWithBearer(h) == Len(h) > 0 /\ h[1] = "Bearer "

\* auth_header.replace("Bearer ", ""): every occurrence is removed
BearerRemoved(h) == SelectSeq(h, LAMBDA piece : piece # "Bearer ")

\* str.strip(): leading and trailing blanks are removed
Strip(h) ==
    LET inked == {i \in 1..Len(h) : h[i] # " "}
    IN  IF inked = {} THEN <<>>
        ELSE SubSeq(h, CHOOSE i \in inked : \A j \in inked : i <= j,
                       CHOOSE i \in inked : \A j \in inked : i >= j)

\* auth_middleware(request, call_next): status 0 stands for call_next.
auth_middleware(request) ==
    IF request.path \in ExemptPaths \/ request.method = "OPTIONS"
    THEN [forwarded |-> TRUE, status |-> 0]
    ELSE IF ~StartsWithBearer(request.authorization)
    THEN [forwarded |-> FALSE, status |-> 401]
    ELSE IF Strip(BearerRemoved(request.authorization)) # <<AuthToken>>
    THEN [forwarded |-> FALSE, status |-> 403]
    ELSE [forwarded |-> TRUE, status |-> 0]

HandleRequest(request) ==
    /\ last' = [op |-> "http", code |-> "OK", req |-> request,
                resp |-> auth_middleware(request)]
    /\ UNCHANGED <<cards, strategies, now, nextCardId, nextStrategyId>>
    /\ UNCHANGED <<mergeVars, calls>>

\* Effective slots offered to the loop body of compile_strategy: a context,
\* an event with none, one or both of condition and regime, each a
\* ConditionSpec (type), a RegimeSpec (metric), a dict with both fields, a
\* dict with neither, or a string; and no action or an action with none, one
\* or both of execution and sizing.
ExtractInputs ==
    LET conds == { D1("type", JStr("all")), D1("metric", JStr("adx")),
                   D2("type", JStr("regime"), "metric", JStr("adx")),
                   D1("op", JStr(">")), JStr("adx > 25") }
        events == { JObj(f) : f \in UNION { [ks -> conds] : ks \in SUBSET {"condition", "regime"} } }
        actions == { JObj([k \in ks |-> IF k = "execution"
                                        THEN D1("order_type", JStr("market"))
                                        ELSE D1("mode", JStr("fixed"))]) :
                       ks \in SUBSET {"execution", "sizing"} }
        plain == { D2("context", Ctx(BTC, "1h"), "event", e) : e \in events }
    IN  { [type |-> "exit.rule_trigger", slots |-> x] :
            x \in plain \cup { JObj(Put(b.obj, "action", a)) : b \in plain, a \in actions } }

\* The body of the attachment loop of compile_strategy, after the merge, for
\* one attachment whose effective slots are ci.slots.
CompileOne(ci) ==
    /\ last' = [op |-> "compile_attachment", code |-> "OK", req |-> ci,
                run |-> CompileMerged(EmptyRun,
                                      Attachment(1, TypePrefix(ci.type), Pinned, NoRevision),
                                      [type |-> ci.type, slots |-> ci.slots],
                                      NoRevision, ci.slots)]
    /\ UNCHANGED <<cards, strategies, now, nextCardId, nextStrategyId>>
    /\ UNCHANGED <<mergeVars, calls>>

SurfaceNext ==
    \/ \E ci \in DraftInputs : ValidateSlotsDraft(ci)
    \/ \E ci \in DraftInputs : CreateCard(ci, NoStrategy, NoRole, 0, Pinned)
    \/ \E t \in SchemaTypes \cup {"signal.unknown"},
          inm \in {<<>>, <<"W/seed", "entry.trend_pullback">>, <<"W/stale">>} :
              GetArchetypeSchema(t, inm)
    \/ \E pool \in BOOLEAN, ci \in DraftInputs : ValidatorCall(pool, ci)
    \/ \E request \in RequestInputs : HandleRequest(request)
    \/ \E ci \in ExtractInputs : CompileOne(ci)

SurfaceSpec == Init /\ [][SurfaceNext]_vars

(***************************************************************************)
(* Properties.                                                             *)
(***************************************************************************)

\* The last tool call was a compile_strategy that returned a response.
Compiled == last.op = "compile_strategy" /\ last.code = "OK"

HasCode(issues, code) == \E i \in 1..Len(issues) : issues[i].code = code
HasIssue(issues, code, path) ==
    \E i \in 1..Len(issues) : issues[i].code = code /\ issues[i].path = path

\* The attachments of the strategy the last call was about.
LastAttachments == strategies[last.sid].attachments

\* C1: for an enabled attachment with follow_latest=false whose card exists,
\* compile_strategy emits CARD_REVISION_NOT_FOUND for the attachment exactly
\* when the card's current updated_at differs from the attachment's
\* card_revision_id (as it does after an update_card at a later instant).
C1_PinnedAcceptedIffRevisionMatches ==
    Compiled =>
        \A i \in 1..Len(LastAttachments) :
            LET att == LastAttachments[i] IN
            (att.enabled /\ ~att.follow_latest /\ att.card_id \in DOMAIN cards) =>
                (HasIssue(last.resp.issues, "CARD_REVISION_NOT_FOUND", AttPath(att.card_id, ""))
                 <=> cards[att.card_id].updated_at # att.card_revision_id)

\* C2: whenever compile_strategy returns ready, validate_strategy on the
\* same strategy in the same state returns ready with the same issues and
\* the same validation_summary.
C2_ValidateAgreesWithCompile ==
    (Compiled /\ last.resp.status_hint = "ready") =>
        LET v == ValidateResponse(cards, last.sid, strategies[last.sid]) IN
        /\ v.status_hint = "ready"
        /\ v.issues = last.resp.issues
        /\ v.validation_summary = last.resp.validation_summary

\* The last tool call was a successful update_strategy_meta.
MetaUpdated == last.op = "update_strategy_meta" /\ last.code = "OK"

C4_DeleteDoesNotCascade ==
    /\ (last.op = "delete_card" /\ last.code = "OK") =>
          /\ last.cid \notin DOMAIN cards
          /\ strategies = last.before
    /\ Compiled =>
          \A i \in 1..Len(LastAttachments) :
              LET att == LastAttachments[i] IN
              (att.enabled /\ att.card_id \notin DOMAIN cards) =>
                  /\ HasIssue(last.resp.issues, "CARD_NOT_FOUND", AttPath(att.card_id, ""))
                  /\ last.resp.status_hint = "fix_required"
                  /\ ~last.resp.has_compiled

\* C4 witness: a compile_strategy of a strategy two cards were attached to
\* (version 3), one of them deleted since, reports the missing card.
C4_Witness ==
    /\ Compiled
    /\ strategies[last.sid].version = 3
    /\ Len(LastAttachments) = 2
    /\ LastAttachments[2].enabled
    /\ LastAttachments[2].card_id \notin DOMAIN cards
    /\ LastAttachments[1].card_id \in DOMAIN cards
    /\ HasIssue(last.resp.issues, "CARD_NOT_FOUND", AttPath(LastAttachments[2].card_id, ""))
    /\ last.resp.status_hint = "fix_required"

\* The entry cards compile_strategy compiles, read off the stored strategy
\* and cards: the enabled attachments with role entry whose card exists and
\* whose effective slots pass the schema and carry a context symbol and tf.
EntryCompiles(att) ==
    /\ att.enabled
    /\ att.role = "entry"
    /\ att.card_id \in DOMAIN cards
    /\ LET eff == EffectiveSlots(cards[att.card_id].slots, att.overrides) IN
       /\ HasSchema(cards[att.card_id].type)
       /\ ValidateSlots(cards[att.card_id].type, eff) = <<>>
       /\ Truthy(GetOrNone(Get(eff, "context"), "symbol"))
       /\ Truthy(GetOrNone(Get(eff, "context"), "tf"))

EffectiveOf(att) == EffectiveSlots(cards[att.card_id].slots, att.overrides)

\* context.symbol of the effective slots of an attachment
EffectiveSymbol(att) == GetOrNone(Get(EffectiveOf(att), "context"), "symbol")

\* An intermarket entry: the traded symbol is the follower symbol.
IsIntermarket(att) ==
    /\ cards[att.card_id].type = "entry.intermarket_trigger"
    /\ HasKey(EffectiveOf(att), "event")
    /\ HasKey(Get(EffectiveOf(att), "event"), "lead_follow")

FollowerOf(att) ==
    GetOrNone(Get(Get(EffectiveOf(att), "event"), "lead_follow"), "follower_symbol")

\* The symbol an entry attachment trades.
TradedOf(att) == IF IsIntermarket(att) THEN FollowerOf(att) ELSE EffectiveSymbol(att)

\* The traded symbols of the compiled entry cards of the last strategy.
LastTraded ==
    {TradedOf(LastAttachments[i]) :
        i \in {j \in 1..Len(LastAttachments) :
                 EntryCompiles(LastAttachments[j]) /\ Truthy(TradedOf(LastAttachments[j]))}}

LastUniverse == strategies[last.sid].universe

Lists(universe, symbol) == \E i \in 1..Len(universe) : JStr(universe[i]) = symbol

\* C5 as stated: with exactly one traded symbol, MVP_UNIVERSE_MISMATCH is
\* emitted if the universe has more than one symbol or does not contain the
\* traded symbol.
C5_MismatchWheneverNotContained ==
    (Compiled /\ Cardinality(LastTraded) = 1) =>
        ((Len(LastUniverse) > 1 \/ \E x \in LastTraded : ~Lists(LastUniverse, x))
            => HasCode(last.resp.issues, "MVP_UNIVERSE_MISMATCH"))

\* C5 amended: with exactly one traded symbol, MVP_UNIVERSE_MISMATCH is
\* emitted if and only if the universe is non-empty and has more than one
\* symbol or does not contain the traded symbol; an empty universe yields
\* EMPTY_UNIVERSE and no MVP_UNIVERSE_MISMATCH.
C5_MismatchForNonEmptyUniverse ==
    (Compiled /\ Cardinality(LastTraded) = 1) =>
        /\ HasIssue(last.resp.issues, "MVP_UNIVERSE_MISMATCH", PlainPath("universe"))
             <=> (/\ Len(LastUniverse) > 0
                  /\ (Len(LastUniverse) > 1 \/ \E x \in LastTraded : ~Lists(LastUniverse, x)))
        /\ Len(LastUniverse) = 0 =>
             /\ HasCode(last.resp.issues, "EMPTY_UNIVERSE")
             /\ ~HasCode(last.resp.issues, "MVP_UNIVERSE_MISMATCH")
        /\ HasCode(last.resp.issues, "MVP_UNIVERSE_MISMATCH")
             => last.resp.status_hint = "fix_required"

\* C5 witness: a universe of one symbol, a single entry on another symbol,
\* and the mismatch reported.
C5_Witness ==
    /\ Compiled
    /\ LastUniverse = <<BTC>>
    /\ LastTraded = {JStr(ETH)}
    /\ HasCode(last.resp.issues, "MVP_UNIVERSE_MISMATCH")

\* C6 as stated: two enabled entry attachments that compile with different
\* effective context.symbol make compile_strategy emit MVP_MULTIPLE_ASSETS
\* and return fix_required without a compiled plan.
C6_TwoContextSymbols ==
    Compiled =>
        ((\E i, j \in 1..Len(LastAttachments) :
             /\ EntryCompiles(LastAttachments[i])
             /\ EntryCompiles(LastAttachments[j])
             /\ EffectiveSymbol(LastAttachments[i]) # EffectiveSymbol(LastAttachments[j]))
         => /\ HasCode(last.resp.issues, "MVP_MULTIPLE_ASSETS")
            /\ last.resp.status_hint = "fix_required"
            /\ ~last.resp.has_compiled)

\* C6 amended: compile_strategy emits MVP_MULTIPLE_ASSETS exactly when the
\* compiled entry cards have more than one traded symbol (context.symbol,
\* or the follower symbol for an intermarket entry), and then returns
\* fix_required without a compiled plan.
C6_TwoTradedSymbols ==
    Compiled =>
        /\ HasIssue(last.resp.issues, "MVP_MULTIPLE_ASSETS", PlainPath("attachments"))
             <=> Cardinality(LastTraded) > 1
        /\ Cardinality(LastTraded) > 1 =>
             /\ last.resp.status_hint = "fix_required"
             /\ ~last.resp.has_compiled

\* C6 witness: entries on two symbols, reported.
C6_Witness ==
    /\ Compiled
    /\ LastTraded = {JStr(BTC), JStr(ETH)}
    /\ HasCode(last.resp.issues, "MVP_MULTIPLE_ASSETS")
    /\ last.resp.status_hint = "fix_required"
    /\ ~last.resp.has_compiled

\* An enabled entry attachment of type entry.intermarket_trigger whose card
\* exists and whose effective context.symbol differs from the follower
\* symbol of its effective event.lead_follow.
IntermarketMismatch(att) ==
    /\ att.enabled
    /\ att.role = "entry"
    /\ att.card_id \in DOMAIN cards
    /\ IsIntermarket(att)
    /\ HasKey(EffectiveOf(att), "context")
    /\ IsDict(Get(EffectiveOf(att), "context"))
    /\ Truthy(EffectiveSymbol(att))
    /\ Truthy(FollowerOf(att))
    /\ EffectiveSymbol(att) # FollowerOf(att)

\* The compiled cards of the last compile that come from attachment att.
CompiledFrom(att) ==
    {i \in 1..Len(last.run.compiled_cards) : last.run.compiled_cards[i].card_id = att.card_id}

\* C7 as stated: every enabled intermarket entry attachment whose effective
\* context.symbol differs from the follower symbol gets an
\* MVP_SINGLE_ASSET_VIOLATION, and the follower symbol is the one counted as
\* traded.
C7_EveryIntermarketMismatch ==
    Compiled =>
        \A i \in 1..Len(LastAttachments) :
            LET att == LastAttachments[i] IN
            IntermarketMismatch(att) =>
                /\ HasIssue(last.resp.issues, "MVP_SINGLE_ASSET_VIOLATION",
                            AttPath(att.card_id, ".effective_slots"))
                /\ FollowerOf(att) \in TradedSymbols(last.run.compiled_cards)

\* C7 amended: every enabled intermarket entry attachment that compiles (its
\* effective slots pass the schema) and whose effective context.symbol
\* differs from the follower symbol gets an MVP_SINGLE_ASSET_VIOLATION, the
\* compile returns fix_required, and the symbol counted as traded for the
\* card is the follower symbol, not context.symbol.
C7_CompiledIntermarketMismatch ==
    Compiled =>
        \A i \in 1..Len(LastAttachments) :
            LET att == LastAttachments[i] IN
            (IntermarketMismatch(att) /\ EntryCompiles(att)) =>
                /\ HasIssue(last.resp.issues, "MVP_SINGLE_ASSET_VIOLATION",
                            AttPath(att.card_id, ".effective_slots"))
                /\ last.resp.status_hint = "fix_required"
                /\ CompiledFrom(att) # {}
                /\ \A c \in CompiledFrom(att) :
                      TradedSymbol(last.run.compiled_cards[c]) = FollowerOf(att)
                /\ FollowerOf(att) \in TradedSymbols(last.run.compiled_cards)
                /\ (\A j \in 1..Len(LastAttachments) :
                       (j # i /\ EntryCompiles(LastAttachments[j]))
                          => TradedOf(LastAttachments[j]) # EffectiveSymbol(att))
                     => EffectiveSymbol(att) \notin TradedSymbols(last.run.compiled_cards)

\* C7 witness: one intermarket entry with context on ETH following BTC:
\* the violation is reported and BTC alone is traded.
C7_Witness ==
    /\ Compiled
    /\ Len(LastAttachments) = 1
    /\ IntermarketMismatch(LastAttachments[1])
    /\ EntryCompiles(LastAttachments[1])
    /\ EffectiveSymbol(LastAttachments[1]) = JStr(ETH)
    /\ HasCode(last.resp.issues, "MVP_SINGLE_ASSET_VIOLATION")
    /\ TradedSymbols(last.run.compiled_cards) = {JStr(BTC)}

\* The strategy of the last call without its disabled attachments.
EnabledOnly(s) == [s EXCEPT !.attachments = SelectSeq(@, LAMBDA a : a.enabled)]

\* C8: a compile_strategy of a strategy with no enabled attachment emits
\* NO_ENTRIES, emits EMPTY_UNIVERSE exactly when the universe is empty, and
\* has no compiled card, no data requirement and no issue at an attachment;
\* in every compile the disabled attachments have no issue and no compiled
\* card, and the outcome is that of the strategy without them.
C8_NoEnabledAttachments ==
    Compiled =>
        /\ (\A i \in 1..Len(LastAttachments) : ~LastAttachments[i].enabled) =>
              /\ HasIssue(last.resp.issues, "NO_ENTRIES", PlainPath("attachments"))
              /\ HasCode(last.resp.issues, "EMPTY_UNIVERSE") <=> Len(LastUniverse) = 0
              /\ last.run.compiled_cards = <<>>
              /\ last.run.data_requirements_map = <<>>
              /\ \A k \in 1..Len(last.resp.issues) : last.resp.issues[k].path.card = 0
              /\ last.resp.status_hint = "fix_required"
              /\ last.resp.validation_summary.cards_validated = 0
        /\ \A i \in 1..Len(LastAttachments) :
              ~LastAttachments[i].enabled =>
                  /\ \A k \in 1..Len(last.resp.issues) :
                        last.resp.issues[k].path.card # LastAttachments[i].card_id
                  /\ CompiledFrom(LastAttachments[i]) = {}
        /\ last.resp = CompileResponse(cards, last.sid, EnabledOnly(strategies[last.sid]))

\* C8 witness: a strategy with a universe and only a disabled attachment,
\* whose card would have compiled.
C8_Witness ==
    /\ Compiled
    /\ Len(LastAttachments) = 1
    /\ ~LastAttachments[1].enabled
    /\ LastAttachments[1].card_id \in DOMAIN cards
    /\ LastUniverse = <<BTC>>
    /\ HasCode(last.resp.issues, "NO_ENTRIES")
    /\ ~HasCode(last.resp.issues, "EMPTY_UNIVERSE")

\* C9: what the result of deep_merge must be, stated key by key: the keys
\* of the result are those of base and override; a key only in base keeps
\* base's value, a key only in override has override's value, a key in both
\* is the merge of the two values when both are dicts and override's value
\* otherwise (None and lists included).
RECURSIVE IsMergeOf(_, _, _)
IsMergeOf(result, base, override) ==
    /\ IsDict(result)
    /\ Keys(result) = Keys(base) \cup Keys(override)
    /\ \A k \in Keys(base) \ Keys(override) : Get(result, k) = Get(base, k)
    /\ \A k \in Keys(override) \ Keys(base) : Get(result, k) = Get(override, k)
    /\ \A k \in Keys(base) \cap Keys(override) :
          IF IsDict(Get(base, k)) /\ IsDict(Get(override, k))
          THEN IsMergeOf(Get(result, k), Get(base, k), Get(override, k))
          ELSE Get(result, k) = Get(override, k)

\* C9: after deep_merge(base, override) returned, the result is the merge
\* described by the claim, the effective slots of an attachment with these
\* card slots and overrides are that result, and base is as it was before
\* the call.
C9_DeepMerge ==
    mPc = "done" =>
        /\ IsMergeOf(mResult, mBase, mOverride)
        /\ EffectiveSlots(mBase, mOverride) = mResult
        /\ mBaseAfter = mBase

\* C9 witness: a merge that recursed into a nested dict, replaced a list by
\* None there, kept a key only base has and added a key only the override
\* has.
C9_Witness ==
    /\ mPc = "done"
    /\ mBase = D1("a", D2("a", JNum(1), "b", JArr(<<JNum(1)>>)))
    /\ mOverride = D2("a", D1("b", JNull), "b", JArr(<<JNum(2), JNum(3)>>))
    /\ mResult = D2("a", D2("a", JNum(1), "b", JNull), "b", JArr(<<JNum(2), JNum(3)>>))
    /\ mBaseAfter = mBase

\* min_history_bars of a compiled card's schema, 100 when unset.
BarsOf(cc) ==
    IF Schemas[cc.type].min_history_bars = 0 THEN 100 ELSE Schemas[cc.type].min_history_bars

KeyOf(cc) ==
    <<Get(Get(cc.effective_slots, "context"), "symbol"),
      Get(Get(cc.effective_slots, "context"), "tf")>>

\* The data requirements of a compile run as a set of (symbol, tf, min_bars).
RequirementSet(run) ==
    {<<run.data_requirements_map[i].symbol, run.data_requirements_map[i].tf,
       run.data_requirements_map[i].min_bars>> : i \in 1..Len(run.data_requirements_map)}

\* The orders in which n attachments can be stored.
Orders(n) == {p \in [1..n -> 1..n] : \A i, j \in 1..n : p[i] = p[j] => i = j}

Reordered(s, p) == [s EXCEPT !.attachments = [i \in 1..Len(@) |-> @[p[i]]]]

\* C10: in every compile, each (symbol, tf) of a compiled card has exactly
\* one data requirement, its min_bars is the maximum of the cards' schema
\* min_history_bars (100 when unset) over the compiled cards with that
\* (symbol, tf), no other requirement exists, the requirements are the same
\* for every order of the stored attachments, and a compiled plan lists
\* exactly these requirements.
C10_DataRequirements ==
    Compiled =>
        LET cc == last.run.compiled_cards
            drm == last.run.data_requirements_map
        IN  /\ \A c \in 1..Len(cc) :
                  \E i \in 1..Len(drm) :
                      /\ <<drm[i].symbol, drm[i].tf>> = KeyOf(cc[c])
                      /\ drm[i].min_bars >= BarsOf(cc[c])
            /\ \A i \in 1..Len(drm) :
                  /\ \E c \in 1..Len(cc) :
                        /\ KeyOf(cc[c]) = <<drm[i].symbol, drm[i].tf>>
                        /\ BarsOf(cc[c]) = drm[i].min_bars
                  /\ \A j \in 1..Len(drm) :
                        (drm[j].symbol = drm[i].symbol /\ drm[j].tf = drm[i].tf) => j = i
            /\ \A p \in Orders(Len(LastAttachments)) :
                  RequirementSet(CompileRun(cards, Reordered(strategies[last.sid], p)))
                      = RequirementSet(last.run)
            /\ last.resp.has_compiled =>
                  /\ Len(last.resp.compiled.data_requirements) = Len(drm)
                  /\ \A i \in 1..Len(drm) :
                        /\ last.resp.compiled.data_requirements[i].symbol = drm[i].symbol
                        /\ last.resp.compiled.data_requirements[i].tf = drm[i].tf
                        /\ last.resp.compiled.data_requirements[i].min_bars = drm[i].min_bars

\* C10 witness: a compiled plan of an exit card (no min_history_bars, 100)
\* stored before an entry card (200) on the same symbol and timeframe, with
\* the one requirement of 200 bars.
C10_Witness ==
    /\ Compiled
    /\ last.resp.has_compiled
    /\ Len(last.resp.compiled.cards) = 2
    /\ last.resp.compiled.cards[1].type = "exit.rule_trigger"
    /\ last.resp.compiled.cards[2].type = "entry.trend_pullback"
    /\ Len(last.resp.compiled.data_requirements) = 1
    /\ last.resp.compiled.data_requirements[1].symbol = JStr(BTC)
    /\ last.resp.compiled.data_requirements[1].tf = JStr("1h")
    /\ last.resp.compiled.data_requirements[1].min_bars = 200

\* The issues of severity error of a response.
ErrorsOf(issues) == {k \in 1..Len(issues) : issues[k].severity = "error"}

\* C11: every compile_strategy response has status_hint ready exactly when
\* none of its issues has severity error, whatever warnings it carries, and
\* fix_required otherwise; the compiled plan is present exactly when the
\* status is ready, and the summary counts the errors of the issue list.
C11_ReadyIffNoError ==
    Compiled =>
        /\ last.resp.status_hint \in {"ready", "fix_required"}
        /\ last.resp.status_hint = "ready" <=> ErrorsOf(last.resp.issues) = {}
        /\ last.resp.has_compiled <=> last.resp.status_hint = "ready"
        /\ ~last.resp.has_compiled => last.resp.compiled = NoPlan(last.sid)
        /\ last.resp.has_compiled =>
              /\ last.resp.compiled.cards = last.run.compiled_cards
              /\ last.resp.compiled.strategy_id = last.sid
        /\ last.resp.validation_summary.errors = Cardinality(ErrorsOf(last.resp.issues))

\* C11 witness: a compile that is ready although it carries the NO_EXITS
\* warning, and its plan holds the compiled entry.
C11_Witness ==
    /\ Compiled
    /\ last.resp.status_hint = "ready"
    /\ last.resp.has_compiled
    /\ HasCode(last.resp.issues, "NO_EXITS")
    /\ last.resp.validation_summary.warnings = 1
    /\ Len(last.resp.compiled.cards) = 1

\* An enabled attachment whose card exists with a schema and whose effective
\* slots fail the schema.
EffectiveSlotsInvalid(att) ==
    /\ att.enabled
    /\ att.card_id \in DOMAIN cards
    /\ HasSchema(cards[att.card_id].type)
    /\ ValidateSlots(cards[att.card_id].type, EffectiveOf(att)) # <<>>

\* The strategy with its i-th attachment disabled.
WithoutAttachment(s, i) == [s EXCEPT !.attachments[i].enabled = FALSE]

\* The issues of a response that name no card of the set.
IssuesNotAt(issues, cardIds) == SelectSeq(issues, LAMBDA x : x.path.card \notin cardIds)

\* C12: in every compile, an enabled attachment whose effective slots
\* (card slots merged with overrides) fail the schema gets an error issue
\* SLOT_VALIDATION_ERROR at attachments[<card_id>].effective_slots and no
\* other issue, contributes no compiled card and no data requirement, and
\* leaves the processing of the other attachments as it is without it: the
\* compiled cards, the data requirements and the issues at other paths are
\* those of the strategy with that attachment disabled; the response is
\* fix_required with no plan.
C12_EffectiveSlotsRevalidated ==
    Compiled =>
        \A i \in 1..Len(LastAttachments) :
            EffectiveSlotsInvalid(LastAttachments[i]) =>
                /\ \E k \in 1..Len(last.resp.issues) :
                      /\ last.resp.issues[k].code = "SLOT_VALIDATION_ERROR"
                      /\ last.resp.issues[k].severity = "error"
                      /\ last.resp.issues[k].path =
                            AttPath(LastAttachments[i].card_id, ".effective_slots")
                /\ \A k \in 1..Len(last.resp.issues) :
                      last.resp.issues[k].path.card = LastAttachments[i].card_id =>
                          last.resp.issues[k].code = "SLOT_VALIDATION_ERROR"
                /\ CompiledFrom(LastAttachments[i]) = {}
                /\ LET other == CompileRun(cards, WithoutAttachment(strategies[last.sid], i))
                   IN  /\ last.run.compiled_cards = other.compiled_cards
                       /\ last.run.data_requirements_map = other.data_requirements_map
                       /\ IssuesNotAt(last.resp.issues, {LastAttachments[i].card_id})
                            = IssuesNotAt(other.issues, {LastAttachments[i].card_id})
                /\ last.resp.status_hint = "fix_required"
                /\ ~last.resp.has_compiled
                /\ last.resp.compiled = NoPlan(last.sid)

\* C12 witness: the card's own slots pass the schema, the override makes the
\* effective slots fail it, and another attachment of the same strategy is
\* compiled with its data requirement.
C12_Witness ==
    /\ Compiled
    /\ Len(LastAttachments) = 2
    /\ \E i, j \in 1..2 :
          /\ i # j
          /\ EffectiveSlotsInvalid(LastAttachments[i])
          /\ ValidateSlots(cards[LastAttachments[i].card_id].type,
                           cards[LastAttachments[i].card_id].slots) = <<>>
          /\ LastAttachments[i].overrides # OverridesNone
          /\ HasIssue(last.resp.issues, "SLOT_VALIDATION_ERROR",
                      AttPath(LastAttachments[i].card_id, ".effective_slots"))
          /\ CompiledFrom(LastAttachments[j]) # {}
          /\ Len(last.run.data_requirements_map) = 1
    /\ last.resp.status_hint = "fix_required"

\* A create_card request with a known archetype, slots that pass its schema,
\* the id of a stored strategy and one of the four attachment roles.
AttachingCreate(r) ==
    /\ HasSchema(r.ci.type)
    /\ ValidateSlots(r.ci.type, r.ci.slots) = <<>>
    /\ r.sid \in DOMAIN strategies
    /\ r.role \in VALID_ROLES

\* C13: every create_card call with valid slots, the id of an existing
\* strategy and a valid role creates the card and attaches it: the call
\* answers attached = true with the new card id, the strategy holds an
\* attachment with that card id and its version is one greater than before,
\* however many attachments the strategy already held.
C13_CreateCardAttaches ==
    [][\A r \in CreateCardInputs(StrategyIds) :
          (CreateCard(r.ci, r.sid, r.role, r.order, r.o) /\ AttachingCreate(r)) =>
              /\ last'.code = "OK"
              /\ last'.attached
              /\ last'.cid \in DOMAIN cards' \ DOMAIN cards
              /\ \E i \in 1..Len(strategies'[r.sid].attachments) :
                    strategies'[r.sid].attachments[i].card_id = last'.cid
              /\ strategies'[r.sid].version = strategies[r.sid].version + 1]_vars

\* C14: every attachment stored in a strategy has a role in
\* {entry, gate, exit, overlay}: no add_card and no create_card with a
\* strategy id stores an attachment with sizing, risk or any other value.
C14_StoredRolesAreValid ==
    \A sid \in DOMAIN strategies :
        \A i \in 1..Len(strategies[sid].attachments) :
            strategies[sid].attachments[i].role \in VALID_ROLES

\* The attachments of strategy sid in a collection, none when it is absent.
AttachmentsOf(ss, sid) == IF sid \in DOMAIN ss THEN ss[sid].attachments ELSE <<>>

\* C15: in every step, each attachment a strategy gains carries, when it is
\* created with follow_latest = false, a non-null card_revision_id equal to
\* the updated_at its card has at that moment, and a null card_revision_id
\* when created with follow_latest = true; each attachment the strategy
\* already held stays in place with the card_revision_id and follow_latest
\* it was created with.
C15_RevisionSetAtAttachAndKept ==
    [][\A sid \in StrategyIds :
          LET old == AttachmentsOf(strategies, sid)
              new == AttachmentsOf(strategies', sid)
          IN  /\ Len(new) >= Len(old)
              /\ \A i \in 1..Len(old) :
                    /\ new[i].card_id = old[i].card_id
                    /\ new[i].card_revision_id = old[i].card_revision_id
                    /\ new[i].follow_latest = old[i].follow_latest
              /\ \A i \in (Len(old) + 1)..Len(new) :
                    /\ new[i].card_id \in DOMAIN cards'
                    /\ new[i].follow_latest => new[i].card_revision_id = NoRevision
                    /\ ~new[i].follow_latest =>
                          /\ new[i].card_revision_id # NoRevision
                          /\ new[i].card_revision_id = cards'[new[i].card_id].updated_at]_vars

\* C15 witness: a strategy holds a following attachment without revision and
\* a pinned one that still carries the updated_at its card had when it was
\* attached, after the card was updated at a later instant.
C15_Witness ==
    \E sid \in DOMAIN strategies :
        \E i, j \in 1..Len(strategies[sid].attachments) :
            LET p == strategies[sid].attachments[i]
                f == strategies[sid].attachments[j]
            IN  /\ ~p.follow_latest
                /\ p.card_id \in DOMAIN cards
                /\ p.card_revision_id = cards[p.card_id].created_at
                /\ cards[p.card_id].updated_at > p.card_revision_id
                /\ f.follow_latest
                /\ f.card_revision_id = NoRevision

\* What create_card(type, slots), called without strategy id on the current
\* state, can answer.
CreateCardAnswers(ci, code) ==
    ENABLED (CreateCard(ci, NoStrategy, NoRole, 0, Pinned) /\ last'.code = code)

\* C16: for every archetype type and slot tree, validate_slots_draft fails
\* with ARCHETYPE_NOT_FOUND exactly when the type has no schema, and so does
\* create_card; otherwise it returns a response whose valid is true exactly
\* when create_card of the same type and slots does not fail with
\* SCHEMA_VALIDATION_ERROR, its errors are empty exactly when valid, and
\* its schema_etag is the one the card would be stored with.
C16_DraftAgreesWithCreateCard ==
    last.op = "validate_slots_draft" =>
        /\ last.code \in {"OK", "ARCHETYPE_NOT_FOUND"}
        /\ last.code = "ARCHETYPE_NOT_FOUND" <=> ~HasSchema(last.req.type)
        /\ CreateCardAnswers(last.req, "ARCHETYPE_NOT_FOUND") <=> ~HasSchema(last.req.type)
        /\ last.code = "OK" =>
              /\ last.resp.valid <=> ~CreateCardAnswers(last.req, "SCHEMA_VALIDATION_ERROR")
              /\ last.resp.valid <=> last.resp.errors = <<>>
              /\ (last.resp.valid /\ nextCardId <= MaxCards) =>
                    CreateCardAnswers(last.req, "OK")
              /\ last.resp.type_id = last.req.type
              /\ last.resp.schema_etag = Schemas[last.req.type].etag

\* C16 witness: the draft with dip_band.mult = 10 is reported invalid with
\* an error at event.dip_band.mult, and create_card of it fails with
\* SCHEMA_VALIDATION_ERROR.
C16_Witness ==
    /\ last.op = "validate_slots_draft"
    /\ last.code = "OK"
    /\ last.req = TrendBad
    /\ ~last.resp.valid
    /\ last.resp.errors[1].path = "event.dip_band.mult"
    /\ CreateCardAnswers(TrendBad, "SCHEMA_VALIDATION_ERROR")

\* C17: the slot validator never raises: every call returns a list, and a
\* call made while the common-definitions pool is absent, on slots whose
\* validation follows a $ref into the pool, returns a non-empty list of
\* validation errors.
C17_ValidatorNeverRaises ==
    last.op = "_validate_slots_against_schema" =>
        /\ last.code = "OK"
        /\ (~last.pool /\ ReachesPool(last.req.slots)) => last.errors # <<>>

\* A request the middleware checks: neither an exempt path nor OPTIONS.
Guarded(request) == request.path \notin ExemptPaths /\ request.method # "OPTIONS"

\* The header is "Bearer " followed by the word, blanks around it aside.
CarriesBearer(h, word) ==
    /\ StartsWithBearer(h)
    /\ Strip(SubSeq(h, 2, Len(h))) = <<word>>

\* C18: with a static token configured, a guarded request reaches the
\* handler only if its Authorization header is "Bearer <token>" with the
\* configured token; a missing header or one not starting with "Bearer "
\* gets 401; a bearer header with anything else than the configured token
\* gets 403; exempt requests are forwarded whatever header they carry.
C18_BearerTokenRequired ==
    last.op = "http" =>
        /\ ~Guarded(last.req) => last.resp.forwarded
        /\ Guarded(last.req) =>
              /\ last.resp.forwarded <=> CarriesBearer(last.req.authorization, AuthToken)
              /\ ~StartsWithBearer(last.req.authorization) => last.resp.status = 401
              /\ (/\ StartsWithBearer(last.req.authorization)
                  /\ ~CarriesBearer(last.req.authorization, AuthToken))
                    => last.resp.status = 403

\* C19: get_archetype_schema called with a type that has no schema in the
\* catalog returns no response: it raises a structured error whose code is
\* SCHEMA_NOT_FOUND, the code of the resource looked up.
C19_SchemaNotFound ==
    (last.op = "get_archetype_schema" /\ ~HasSchema(last.req.type)) =>
        last.code = "SCHEMA_NOT_FOUND"

\* C20: for every stored strategy, in every state, validate_strategy
\* returns the status_hint compile_strategy returns on that state, and
\* never a compiled plan.
C20_ValidateSameStatusAsCompile ==
    \A sid \in DOMAIN strategies :
        /\ ValidateResponse(cards, sid, strategies[sid]).status_hint
              = CompileResponse(cards, sid, strategies[sid]).status_hint
        /\ ~ValidateResponse(cards, sid, strategies[sid]).has_compiled

\* Every attachment of the list that the loop processes is accounted for in
\* the run: it has a compiled card, or an issue at its own path.
Accounted(atts, run) ==
    \A i \in 1..Len(atts) :
        \/ \E k \in 1..Len(run.compiled_cards) : run.compiled_cards[k].card_id = atts[i].card_id
        \/ \E k \in 1..Len(run.issues) :
              /\ run.issues[k].path.root = "attachments"
              /\ run.issues[k].path.card = atts[i].card_id

PlaceOf(atts, cid) ==
    IF \E i \in 1..Len(atts) : atts[i].card_id = cid
    THEN CHOOSE i \in 1..Len(atts) : atts[i].card_id = cid
    ELSE 0

\* The card ids of a list of compiled cards or attachments.
CardIdsOf(q) == [i \in 1..Len(q) |-> q[i].card_id]

\* The issues that name an attachment follow the stored order.
InStoredOrder(atts, issues) ==
    \A j, k \in 1..Len(issues) :
        (j < k /\ issues[j].path.card # 0 /\ issues[k].path.card # 0) =>
            PlaceOf(atts, issues[j].path.card) <= PlaceOf(atts, issues[k].path.card)

\* C22 as stated: the compiled cards follow the stored order of their
\* attachments, and so do all the issues that name an attachment.
C22_CardsAndIssuesInStoredOrder ==
    Compiled =>
        /\ CardIdsOf(last.run.compiled_cards)
              = CardIdsOf(SelectSeq(LastAttachments, LAMBDA a : CompiledFrom(a) # {}))
        /\ InStoredOrder(LastAttachments, last.resp.issues)

\* The codes of the issues appended by the attachment loop.
LoopCodes == {"CARD_NOT_FOUND", "SCHEMA_NOT_FOUND", "SLOT_VALIDATION_ERROR", "MISSING_CONTEXT"}

\* C22 amended: the compiled cards, in the run and in the plan, are the
\* enabled attachments that compiled, in stored order whatever their roles;
\* the issues of the attachment loop come first and in stored order; the
\* issues of the checks made after the loop follow them, and among these the
\* MVP_SINGLE_ASSET_VIOLATION issues are in stored order too.
C22_CardsAndLoopIssuesInStoredOrder ==
    Compiled =>
        /\ CardIdsOf(last.run.compiled_cards)
              = CardIdsOf(SelectSeq(LastAttachments, LAMBDA a : CompiledFrom(a) # {}))
        /\ \A a \in 1..Len(LastAttachments) : Cardinality(CompiledFrom(LastAttachments[a])) <= 1
        /\ last.resp.has_compiled => last.resp.compiled.cards = last.run.compiled_cards
        /\ InStoredOrder(LastAttachments,
                         SelectSeq(last.resp.issues, LAMBDA x : x.code \in LoopCodes))
        /\ InStoredOrder(LastAttachments,
                         SelectSeq(last.resp.issues, LAMBDA x : x.code \notin LoopCodes))
        /\ \A j, k \in 1..Len(last.resp.issues) :
              (last.resp.issues[j].code \notin LoopCodes
               /\ last.resp.issues[k].code \in LoopCodes) => k < j

\* C22 witness: a plan whose exit card is stored, and compiled, before its
\* entry card.
C22_Witness ==
    /\ Compiled
    /\ last.resp.has_compiled
    /\ Len(last.resp.compiled.cards) = 2
    /\ last.resp.compiled.cards[1].role = "exit"
    /\ last.resp.compiled.cards[2].role = "entry"
    /\ LastAttachments[1].role = "exit"


\* The calls of client p that returned successfully.
ReturnedCalls == {p \in Clients : calls[p].pc = "returned"}

\* C23: under any interleaving of two concurrent mutating calls on one
\* strategy no write is lost: once both calls have returned successfully the
\* stored strategy holds the attachment of every add_card that returned and
\* the fields set by an update_strategy_meta that raced with an add_card, and
\* its version has advanced by one for each successful write.
C23_NoWriteLost ==
    (ReturnedCalls = Clients) =>
        \A sid \in DOMAIN strategies :
            LET mine == {p \in Clients : calls[p].sid = sid}
                adds == {p \in mine : calls[p].op = "add_card"}
                metas == mine \ adds
            IN  /\ \A p \in adds :
                      \E i \in 1..Len(strategies[sid].attachments) :
                          strategies[sid].attachments[i].card_id = calls[p].cid
                /\ (adds # {} /\ metas # {}) =>
                      \A p \in metas :
                          ApplyMeta(strategies[sid], calls[p].m) = strategies[sid]
                /\ strategies[sid].version = 1 + Cardinality(mine)


\* C24: a create_card or add_card call that ends in an error leaves the card
\* store and the strategy store exactly as they were before the call.
C24_FailedCallChangesNothing ==
    [][(last'.op \in {"create_card", "add_card"} /\ last'.code # "OK") =>
           (cards' = cards /\ strategies' = strategies)]_vars


\* C25: a strategy created with thread_id = T keeps it: the stored document
\* carries it and get_by_thread_id(T) finds the strategy; and every later
\* write of a strategy keeps its owner_id and, where stored, its thread_id.
C25_ThreadIdKept ==
    [][/\ \A u \in UniverseInputs, T \in ThreadIdInputs \ {""} :
             (last'.op = "create_strategy" /\ CreateStrategy(u, T)) =>
                 /\ get_by_thread_id(strategies', T) = last'.sid
                 /\ "thread_id" \in DOMAIN strategies'[last'.sid]
       /\ \A sid \in DOMAIN strategies :
             /\ strategies'[sid].owner_id = strategies[sid].owner_id
             /\ get_by_thread_id(strategies', "thread-1") = get_by_thread_id(strategies, "thread-1")]_vars


\* C26: compile_strategy and validate_strategy are read-only: whatever the
\* call answers (ready, fix_required, or STRATEGY_NOT_FOUND raised), the card
\* store and the strategy store after the call are those before it.
C26_CompileAndValidateReadOnly ==
    [][(last'.op \in {"compile_strategy", "validate_strategy"}) =>
           (cards' = cards /\ strategies' = strategies)]_vars

\* A compilation that answered fix_required for a strategy whose attachment
\* carries an override, the strategy and its card being still in the stores.
C26_Witness ==
    /\ last.op = "compile_strategy"
    /\ last.code = "OK"
    /\ last.resp.status_hint = "fix_required"
    /\ \E i \in 1..Len(strategies[last.sid].attachments) :
          /\ strategies[last.sid].attachments[i].overrides # JEmpty
          /\ strategies[last.sid].attachments[i].card_id \in DOMAIN cards


\* The stored card is valid against the schema of its type and carries that
\* schema's etag.
ValidatedCard(card) ==
    /\ HasSchema(card.type)
    /\ ValidateSlots(card.type, card.slots) = <<>>
    /\ card.schema_etag = get_by_type_id(card.type).etag

WithRole(compiled_cards, role) ==
    {i \in 1..Len(compiled_cards) : compiled_cards[i].role = role}
WithCode(issues, code) == {i \in 1..Len(issues) : issues[i].code = code}

\* C28: the composition checks count the compiled cards by attachment role:
\* NO_ENTRIES (one error) is present iff no compiled card has role entry,
\* NO_EXITS (one warning) iff none has role exit, MULTIPLE_EXITS (one
\* warning) iff more than one has; and a result whose only issues are these
\* two warnings is ready.
C28_CompositionCountsCompiledRoles ==
    (last.op = "compile_strategy" /\ last.code = "OK") =>
        LET cc == last.run.compiled_cards
            issues == last.resp.issues
            entries == WithRole(cc, "entry")
            exits == WithRole(cc, "exit")
            one(code, severity, wanted) ==
                /\ Cardinality(WithCode(issues, code)) = (IF wanted THEN 1 ELSE 0)
                /\ \A i \in WithCode(issues, code) : issues[i].severity = severity
        IN  /\ one("NO_ENTRIES", "error", entries = {})
            /\ one("NO_EXITS", "warning", exits = {})
            /\ one("MULTIPLE_EXITS", "warning", Cardinality(exits) > 1)
            /\ (\A i \in 1..Len(issues) : issues[i].code \in {"NO_EXITS", "MULTIPLE_EXITS"})
                   => last.resp.status_hint = "ready"

\* A compilation of two exit cards: MULTIPLE_EXITS and NO_ENTRIES together.
C28_Witness ==
    /\ last.op = "compile_strategy"
    /\ last.code = "OK"
    /\ Cardinality(WithRole(last.run.compiled_cards, "exit")) = 2
    /\ WithCode(last.resp.issues, "MULTIPLE_EXITS") # {}
    /\ WithCode(last.resp.issues, "NO_ENTRIES") # {}

\* A compilation answered ready although it carries the NO_EXITS warning.
C28_WitnessReady ==
    /\ last.op = "compile_strategy"
    /\ last.code = "OK"
    /\ WithCode(last.resp.issues, "NO_EXITS") # {}
    /\ last.resp.status_hint = "ready"


\* The answers of the slot validator recorded in `last`: the validator called
\* with the common definitions at hand, and validate_slots_draft.
ValidatorAnswered ==
    \/ last.op = "_validate_slots_against_schema" /\ last.code = "OK" /\ last.pool
    \/ last.op = "validate_slots_draft" /\ last.code = "OK"
ValidatorErrors ==
    IF last.op = "validate_slots_draft" THEN last.resp.errors ELSE last.errors

\* The SLOT_VALIDATION_ERROR issues of the loop body of compile_strategy run
\* on the slot tree as the effective slots of one attachment.
SlotIssuesOf(ci) ==
    LET run == CompileMerged(EmptyRun, Attachment(1, "entry", Pinned, NoRevision),
                             [type |-> ci.type, slots |-> ci.slots], NoRevision, ci.slots)
    IN  WithCode(run.issues, "SLOT_VALIDATION_ERROR")

\* C29: the slot validator returns one error message per schema violation
\* present in the slot tree, in order, and the empty list iff the tree is
\* valid; hence compile_strategy emits one SLOT_VALIDATION_ERROR issue per
\* violation of the effective slots.
C29_OneErrorPerViolation ==
    ValidatorAnswered =>
        /\ Len(ValidatorErrors) = Len(Violations(last.req.type, last.req.slots))
        /\ \A i \in 1..Len(ValidatorErrors) :
              ValidatorErrors[i].path = Violations(last.req.type, last.req.slots)[i]
        /\ Cardinality(SlotIssuesOf(last.req)) = Len(Violations(last.req.type, last.req.slots))

\* C29 as the code has it: the validator returns the empty list iff the slot
\* tree has no violation and otherwise exactly one message, that of the
\* first violation; compile_strategy emits one SLOT_VALIDATION_ERROR issue
\* for effective slots that are invalid, however many violations they hold.
C29_OneErrorPerInvalidTree ==
    ValidatorAnswered =>
        LET violations == Violations(last.req.type, last.req.slots) IN
        /\ Len(ValidatorErrors) = (IF violations = <<>> THEN 0 ELSE 1)
        /\ violations # <<>> => ValidatorErrors[1].path = violations[1]
        /\ Cardinality(SlotIssuesOf(last.req)) = Len(ValidatorErrors)

\* The validator has answered on a slot tree with two violations.
C29_Witness ==
    /\ ValidatorAnswered
    /\ Len(Violations(last.req.type, last.req.slots)) = 2
    /\ Len(ValidatorErrors) = 1


\* event[key] is a dict with the field `field`.
HasField(event, key, field) ==
    HasKey(event, key) /\ IsDict(Get(event, key)) /\ HasKey(Get(event, key), field)
Wrapped(regime) == D2("type", JStr("regime"), "regime", regime)

\* C30: for every effective slot tree compiled_condition is event.condition
\* verbatim if it has a type field, else event.condition wrapped as
\* {type: regime, regime: ...} if it has a metric field, else the same two
\* cases on event.regime, else null; execution_spec is action.execution and
\* sizing_spec is action.sizing, null when absent; and the extraction adds no
\* issue and does not keep the CompiledCard from being emitted.
C30_SubSpecsExtracted ==
    (last.op = "compile_attachment") =>
        LET slots == last.req.slots
            event == Get(slots, "event")
            run == last.run
            condition ==
                IF ~HasKey(slots, "event") THEN JNull
                ELSE IF HasField(event, "condition", "type") THEN Get(event, "condition")
                ELSE IF HasField(event, "condition", "metric") THEN Wrapped(Get(event, "condition"))
                ELSE IF HasField(event, "regime", "type") THEN Get(event, "regime")
                ELSE IF HasField(event, "regime", "metric") THEN Wrapped(Get(event, "regime"))
                ELSE JNull
            execution == IF HasKey(slots, "action") /\ HasKey(Get(slots, "action"), "execution")
                         THEN Get(Get(slots, "action"), "execution") ELSE JNull
            sizing == IF HasKey(slots, "action") /\ HasKey(Get(slots, "action"), "sizing")
                      THEN Get(Get(slots, "action"), "sizing") ELSE JNull
        IN  /\ run.issues = <<>>
            /\ Len(run.compiled_cards) = 1
            /\ run.compiled_cards[1].effective_slots = slots
            /\ run.compiled_cards[1].compiled_condition = condition
            /\ run.compiled_cards[1].execution_spec = execution
            /\ run.compiled_cards[1].sizing_spec = sizing

\* A card compiled from an event whose condition is a RegimeSpec and whose
\* regime is a ConditionSpec, with an execution and no sizing: the condition
\* is wrapped and the regime is not looked at.
C30_Witness ==
    /\ last.op = "compile_attachment"
    /\ HasField(Get(last.req.slots, "event"), "condition", "metric")
    /\ ~HasField(Get(last.req.slots, "event"), "condition", "type")
    /\ HasField(Get(last.req.slots, "event"), "regime", "type")
    /\ last.run.compiled_cards[1].compiled_condition
          = Wrapped(Get(Get(last.req.slots, "event"), "condition"))
    /\ ~IsNone(last.run.compiled_cards[1].execution_spec)
    /\ IsNone(last.run.compiled_cards[1].sizing_spec)

====
